---- MODULE Spec2Model ----
(***************************************************************************)
(* goarchive: the provider registry (core/registry.go), the backup         *)
(* orchestrator (core/backup.go) and the disk storage provider             *)
(* (storage/disk/disk.go), as state machines.                              *)
(*                                                                         *)
(* Go strings are TLA+ strings (TLC evaluates \o, Len and SubSeq on them), *)
(* so formatting and parsing are computed as the code computes them.       *)
(* Three specifications share the module: SpecRegistry (goroutines calling *)
(* one Registry), SpecBackup (goroutines calling one BackupService) and    *)
(* SpecDisk (a caller of one disk Provider).                               *)
(***************************************************************************)
EXTENDS Integers, Sequences, FiniteSets, TLC

\* ------------------------------------------------------------------------
\* Bounds of the model
\* ------------------------------------------------------------------------

\* registry operations started over a run, all goroutines together
MaxRegistryOps == 3

\* ------------------------------------------------------------------------
\* Strings
\* ------------------------------------------------------------------------

\* strings.HasSuffix
HasSuffix(s, suffix) ==
    /\ Len(s) >= Len(suffix)
    /\ SubSeq(s, Len(s) - Len(suffix) + 1, Len(s)) = suffix

\* strings.Contains (the tests' contains helper)
Contains(s, substr) ==
    \E i \in 1..(Len(s) - Len(substr) + 1) : SubSeq(s, i, i + Len(substr) - 1) = substr

\* the position of the first sep in s, 0 when there is none (strings.Index + 1)
Index(s, sep) ==
    LET at == {i \in 1..(Len(s) - Len(sep) + 1) : SubSeq(s, i, i + Len(sep) - 1) = sep}
    IN IF at = {} THEN 0 ELSE CHOOSE i \in at : \A j \in at : i <= j

\* strings.Split(s, sep), sep not empty
RECURSIVE Split(_, _)
Split(s, sep) ==
    LET i == Index(s, sep)
    IN IF i = 0 THEN <<s>>
       ELSE <<SubSeq(s, 1, i - 1)>> \o Split(SubSeq(s, i + Len(sep), Len(s)), sep)

\* strings.SplitN(s, sep, 2)
SplitN2(s, sep) ==
    LET i == Index(s, sep)
    IN IF i = 0 THEN <<s>> ELSE <<SubSeq(s, 1, i - 1), SubSeq(s, i + Len(sep), Len(s))>>

DecDigits == "0123456789"

\* one decimal digit as a string
DecDigit(d) == SubSeq(DecDigits, d + 1, d + 1)

\* fmt's %d of a non-negative integer
RECURSIVE Itoa(_)
Itoa(n) == IF n < 10 THEN DecDigit(n) ELSE Itoa(n \div 10) \o DecDigit(n % 10)

\* a number below 100 as two digits
TwoDigits(n) == DecDigit(n \div 10) \o DecDigit(n % 10)

\* whether s is one decimal digit
IsDigit(s) == \E d \in 0..9 : DecDigit(d) = s

\* the value of a decimal digit
DigitValue(s) == CHOOSE d \in 0..9 : DecDigit(d) = s

\* ------------------------------------------------------------------------
\* Time. A time.Time is a number of ticks after 2024-02-15 12:00:00 UTC,
\* TicksPerSecond ticks to the second; the model stays within that hour.
\* ------------------------------------------------------------------------

\* instants told apart within one second
TicksPerSecond == 2

\* the latest instant of the model, in ticks
MaxTime == 2

Times == 0..MaxTime

\* the whole seconds of t
Seconds(t) == t \div TicksPerSecond

\* t.Format("20060102-150405")
FormatCompact(t) ==
    "20240215-12" \o TwoDigits((Seconds(t) \div 60) % 60) \o TwoDigits(Seconds(t) % 60)

\* t.Format(time.RFC3339)
FormatRFC3339(t) ==
    "2024-02-15T12:" \o TwoDigits((Seconds(t) \div 60) % 60) \o ":"
        \o TwoDigits(Seconds(t) % 60) \o "Z"

\* time.Parse(time.RFC3339, value): ok and the time, within the model's hour
ParseRFC3339(value) ==
    LET d(i) == SubSeq(value, i, i)
        ok == /\ Len(value) = 20
              /\ SubSeq(value, 1, 14) = "2024-02-15T12:"
              /\ d(17) = ":" /\ d(20) = "Z"
              /\ IsDigit(d(15)) /\ IsDigit(d(16)) /\ IsDigit(d(18)) /\ IsDigit(d(19))
              /\ DigitValue(d(15)) < 6 /\ DigitValue(d(18)) < 6
    IN IF ok
       THEN [ok |-> TRUE,
             t |-> ((((DigitValue(d(15)) * 10) + DigitValue(d(16))) * 60)
                    + (DigitValue(d(18)) * 10) + DigitValue(d(19))) * TicksPerSecond]
       ELSE [ok |-> FALSE, t |-> 0]

\* ------------------------------------------------------------------------
\* crypto/md5 and encoding/hex, computed (RFC 1321)
\* ------------------------------------------------------------------------

\* the characters payloads are written in, and their byte values
Alphabet == " !-.0123456789:_abcdefghijklmnopqrstuvwxyz"
ByteValues == <<32, 33, 45, 46, 48, 49, 50, 51, 52, 53, 54, 55, 56, 57, 58, 95, 97, 98, 99, 100, 101, 102, 103, 104, 105, 106, 107, 108, 109, 110, 111, 112, 113, 114, 115, 116, 117, 118, 119, 120, 121, 122>>

\* the byte value of a one-character string
Ord(c) == ByteValues[CHOOSE i \in 1..Len(Alphabet) : SubSeq(Alphabet, i, i) = c]

RECURSIVE BitAnd(_, _)
BitAnd(a, b) == IF a = 0 \/ b = 0 THEN 0 ELSE ((a % 2) * (b % 2)) + (2 * BitAnd(a \div 2, b \div 2))
RECURSIVE BitOr(_, _)
BitOr(a, b) == IF a = 0 THEN b ELSE IF b = 0 THEN a
               ELSE (IF (a % 2) = 1 \/ (b % 2) = 1 THEN 1 ELSE 0) + (2 * BitOr(a \div 2, b \div 2))
RECURSIVE BitXor(_, _)
BitXor(a, b) == IF a = 0 THEN b ELSE IF b = 0 THEN a
               ELSE ((a + b) % 2) + (2 * BitXor(a \div 2, b \div 2))

\* a uint32 is <<high 16 bits, low 16 bits>>
And32(a, b) == <<BitAnd(a[1], b[1]), BitAnd(a[2], b[2])>>
Or32(a, b) == <<BitOr(a[1], b[1]), BitOr(a[2], b[2])>>
Xor32(a, b) == <<BitXor(a[1], b[1]), BitXor(a[2], b[2])>>
Not32(a) == <<65535 - a[1], 65535 - a[2]>>
Add32(a, b) == <<(a[1] + b[1] + ((a[2] + b[2]) \div 65536)) % 65536, (a[2] + b[2]) % 65536>>
RotlSmall(a, s) ==
    IF s = 0 THEN a
    ELSE <<((a[1] * (2^s)) % 65536) + (a[2] \div (2^(16 - s))),
           ((a[2] * (2^s)) % 65536) + (a[1] \div (2^(16 - s)))>>
Rotl32(a, s) == IF s >= 16 THEN RotlSmall(<<a[2], a[1]>>, s - 16) ELSE RotlSmall(a, s)

Md5K == <<
    <<55146, 42104>>, <<59591, 46934>>, <<9248, 28891>>, <<49597, 52974>>,
    <<62844, 4015>>, <<18311, 50730>>, <<43056, 17939>>, <<64838, 38145>>,
    <<27008, 39128>>, <<35652, 63407>>, <<65535, 23473>>, <<35164, 55230>>,
    <<27536, 4386>>, <<64920, 29075>>, <<42617, 17294>>, <<18868, 2081>>,
    <<63006, 9570>>, <<49216, 45888>>, <<9822, 23121>>, <<59830, 51114>>,
    <<54831, 4189>>, <<580, 5203>>, <<55457, 59009>>, <<59347, 64456>>,
    <<8673, 52710>>, <<49975, 2006>>, <<62677, 3463>>, <<17754, 5357>>,
    <<43491, 59653>>, <<64751, 41976>>, <<26479, 729>>, <<36138, 19594>>,
    <<65530, 14658>>, <<34673, 63105>>, <<28061, 24866>>, <<64997, 14348>>,
    <<42174, 59972>>, <<19422, 53161>>, <<63163, 19296>>, <<48831, 48240>>,
    <<10395, 32454>>, <<60065, 10234>>, <<54511, 12421>>, <<1160, 7429>>,
    <<55764, 53305>>, <<59099, 39397>>, <<8098, 31992>>, <<50348, 22117>>,
    <<62505, 8772>>, <<17194, 65431>>, <<43924, 9127>>, <<64659, 41017>>,
    <<25947, 22979>>, <<36620, 52370>>, <<65519, 62589>>, <<34180, 24017>>,
    <<28584, 32335>>, <<65068, 59104>>, <<41729, 17172>>, <<19976, 4513>>,
    <<63315, 32386>>, <<48442, 62005>>, <<10967, 53947>>, <<60294, 54161>>
    >>
Md5S == << 7, 12, 17, 22, 5, 9, 14, 20, 4, 11, 16, 23, 6, 10, 15, 21 >>
Md5Shift(i) == Md5S[(4 * (i \div 16)) + (i % 4) + 1]
Md5Init == << <<26437, 8961>>, <<61389, 43913>>, <<39098, 56574>>, <<4146, 21622>> >>

\* the padded message of data as bytes: data, 0x80, zeros to 56 mod 64, bit length as 8 bytes little-endian
RECURSIVE Bytes(_)
Bytes(s) == IF Len(s) = 0 THEN <<>> ELSE <<Ord(SubSeq(s, 1, 1))>> \o Bytes(SubSeq(s, 2, Len(s)))
Zeros(n) == [i \in 1..n |-> 0]
Md5Pad(b) ==
    LET n == Len(b)
        z == (55 - n) % 64
        bits == 8 * n
    IN b \o <<128>> \o Zeros(z) \o <<bits % 256, (bits \div 256) % 256, (bits \div 65536) % 256, 0, 0, 0, 0, 0>>
\* word j (0-based) of the block starting at byte off (0-based)
Md5Word(pb, off, j) ==
    LET k == off + (4 * j) IN <<(pb[k + 4] * 256) + pb[k + 3], (pb[k + 2] * 256) + pb[k + 1]>>

\* round i (0-based) of the block at off
Md5Step(st, pb, off, i) ==
    LET a == st[1]  b == st[2]  c == st[3]  d == st[4]
        f == CASE i < 16 -> Or32(And32(b, c), And32(Not32(b), d))
               [] i < 32 -> Or32(And32(d, b), And32(Not32(d), c))
               [] i < 48 -> Xor32(b, Xor32(c, d))
               [] OTHER  -> Xor32(c, Or32(b, Not32(d)))
        g == CASE i < 16 -> i
               [] i < 32 -> ((5 * i) + 1) % 16
               [] i < 48 -> ((3 * i) + 5) % 16
               [] OTHER  -> (7 * i) % 16
        t == Add32(Add32(Add32(f, a), Md5K[i + 1]), Md5Word(pb, off, g))
    IN <<d, Add32(b, Rotl32(t, Md5Shift(i))), b, c>>

\* n rounds of the block at off, from round i on
RECURSIVE Md5Rounds(_, _, _, _, _)
Md5Rounds(st, pb, off, i, n) ==
    IF n = 0 THEN st
    ELSE LET next == Md5Step(st, pb, off, i)
         IN IF next[2][1] >= 0 THEN Md5Rounds(next, pb, off, i + 1, n - 1) ELSE next

\* the 64 rounds of the block at off
Md5Block(st, pb, off) ==
    Md5Rounds(Md5Rounds(Md5Rounds(Md5Rounds(st, pb, off, 0, 16), pb, off, 16, 16),
                        pb, off, 32, 16), pb, off, 48, 16)

\* the state after a block: the state before plus the rounds' result
Md5AddState(st, r) ==
    <<Add32(st[1], r[1]), Add32(st[2], r[2]), Add32(st[3], r[3]), Add32(st[4], r[4])>>

RECURSIVE Md5Blocks(_, _, _)
Md5Blocks(st, pb, off) ==
    IF off >= Len(pb) THEN st
    ELSE Md5Blocks(Md5AddState(st, Md5Block(st, pb, off)), pb, off + 64)

\* the four words of the state as bytes, each little-endian
Md5LittleEndian(w) == <<w[2] % 256, w[2] \div 256, w[1] % 256, w[1] \div 256>>
Md5Digest(st) ==
    Md5LittleEndian(st[1]) \o Md5LittleEndian(st[2]) \o Md5LittleEndian(st[3])
        \o Md5LittleEndian(st[4])

\* md5.Sum(data): the 16 bytes of the digest
Md5Sum(data) == Md5Digest(Md5Blocks(Md5Init, Md5Pad(Bytes(data)), 0))

HexDigits == "0123456789abcdef"
HexDigit(n) == SubSeq(HexDigits, n + 1, n + 1)
RECURSIVE EncodeToString(_)
EncodeToString(b) ==
    IF Len(b) = 0 THEN ""
    ELSE HexDigit(b[1] \div 16) \o HexDigit(b[1] % 16) \o EncodeToString(Tail(b))

\* ------------------------------------------------------------------------
\* Registry: values
\* ------------------------------------------------------------------------

\* the goroutines calling the registry
Procs == {1, 2}

\* no goroutine
NoProc == 0

\* the two mappings of a Registry
Kinds == {"database", "storage"}

\* backend names callers use
Names == {"test", "other"}

\* constructors (DatabaseFactory / StorageFactory values) callers register:
\* two that succeed and one that fails, as in the tests
Factories == {"factoryA", "factoryB", "factoryErr"}

\* the zero value of a factory variable
NilFactory == "nil"

\* what a torn map read may yield
CorruptFactory == "corrupt"

\* configs callers pass
Configs == {"cfg1", "cfg2"}

\* An error value is the sequence of the messages of its chain: its own
\* message first, then those of the error it wraps (errors.Unwrap is Tail).
\* nil is the empty sequence.
NilError == <<>>

\* errors.New(msg), fmt.Errorf(msg) without %w
NewError(msg) == <<msg>>

\* the message of an error, err.Error()
ErrorMsg(err) == err[1]

\* a provider instance is the pair of the constructor that built it and
\* the config it was built from; nil is the empty sequence
NilProvider == <<>>

\* the constructor stubs of the tests: factoryErr returns "factory error",
\* the others an instance built from the config
FactoryResult(f, config) ==
    IF f = "factoryErr"
    THEN [provider |-> NilProvider, err |-> NewError("factory error")]
    ELSE [provider |-> <<f, config>>, err |-> NilError]

\* ------------------------------------------------------------------------
\* State
\* ------------------------------------------------------------------------

VARIABLES
    \* Registry (type Registry struct)
    databases,      \* r.databases: name -> DatabaseFactory
    storages,       \* r.storages: name -> StorageFactory
    mu,             \* r.mu sync.RWMutex: writer, whether it holds, active readers
    writing,        \* the map assignments in progress
    regPc,          \* per goroutine: position in its registry call
    regCall,        \* per goroutine: the call and its arguments
    regLocal,       \* per goroutine: factory, exists (GetDatabase/GetStorage), names (List*)
    regRet,         \* per goroutine: what its last call returned
    calls,          \* per constructor: times invoked (the stubs' counters)
    regOps,         \* registry calls started so far
    \* history of the registry, for stating the properties
    lastRegistered, \* per kind and name: the constructor of the latest registration
    regCount,       \* per kind and name: registrations so far
    invoked,        \* per goroutine: constructors its current call invoked, with the config
    legit           \* per goroutine: entries its name had from the call's start to its lookup

registryVars ==
    <<databases, storages, mu, writing, regPc, regCall, regLocal, regRet, calls,
      regOps, lastRegistered, regCount, invoked, legit>>

VARIABLES
    \* the backup directory of a disk Provider and the caller's view of it
    dir,            \* p.path: file name -> [isDir, data, modTime]
    now,            \* the clock, in ticks
    diskRet,        \* what the caller's last call on the Provider returned
    diskOps,        \* calls on the Provider so far
    \* history of the directory, for stating the properties
    uploaded,       \* successful Uploads: <<payload, Size, Checksum of the record>>
    uploads,        \* the number of successful Uploads
    uploadErrs,     \* the number of Uploads that returned an error
    uploadFault,    \* the operating system's failure during the last Upload
    uploadArg,      \* the record the last Upload was given, as it was at the call
    deleted         \* the IDs of successful Deletes

diskVars == <<dir, now, diskRet, diskOps, uploaded, uploads, uploadErrs, uploadFault, uploadArg, deleted>>

VARIABLES
    \* the goroutines calling one BackupService whose storage is the disk Provider
    exPc,           \* per goroutine: position in Execute or Restore
    exLocal,        \* per goroutine: dbMeta, reader, metadata, err and the backend calls made
    exRet,          \* per goroutine: what its last call returned, its stream and its backend calls
    exOps,          \* calls on the BackupService started so far
    \* history of the service, for stating the properties
    assigned        \* <<number of the Execute call, ID it gave its record>>

backupVars == <<exPc, exLocal, exRet, exOps, assigned>>

VARIABLES
    \* the registries of a process
    DefaultRegistry,    \* var DefaultRegistry = NewRegistry(): its databases and storages
    otherRegistry,      \* a registry of its own, made by NewRegistry()
    initialised,        \* the provider packages whose init() has run
    defRet,             \* what the last call on a registry returned, and how it was made
    defOps,             \* calls on the registries so far, the init() functions apart
    \* history of the registries, for stating the properties
    pkgRegistered       \* <<kind, name>> registered through the package-level functions

defaultVars ==
    <<DefaultRegistry, otherRegistry, initialised, defRet, defOps, pkgRegistered>>

VARIABLES
    \* a core.Config and its caller
    appConfig,      \* the Config: Database.Host, Database.Username, Storage.Type, Bucket, Path
    validateRet,    \* what Validate returned for it, once called
    configOps       \* changes made to the Config so far

configVars == <<appConfig, validateRet, configOps>>

VARIABLES
    \* the lock of a Registry under three goroutines
    lockMu,         \* r.mu sync.RWMutex: writer, whether it holds, active readers
    lockPc,         \* per goroutine: position in its call with respect to the lock
    lockOps,        \* calls started so far
    inConstructor   \* the goroutines whose GetDatabase / GetStorage is in the constructor

lockVars == <<lockMu, lockPc, lockOps, inConstructor>>

VARIABLES
    \* the bucket of an S3 Provider
    objects         \* key -> [body, metadata] of the objects PutObject stored

s3Vars == <<objects>>

vars == <<registryVars, diskVars, backupVars, defaultVars, configVars, lockVars, s3Vars>>

\* a bucket without objects
EmptyBucket == [k \in {} |-> [body |-> "", metadata |-> <<>>]]

\* an empty directory
EmptyDir == [n \in {} |-> [isDir |-> FALSE, data |-> "", modTime |-> 0]]

\* core.BackupMetadata
BackupMetadata(id, name, type, ts, size, checksum, tags) ==
    [ID |-> id, DatabaseName |-> name, DatabaseType |-> type, Timestamp |-> ts,
     Size |-> size, Checksum |-> checksum, Tags |-> tags]

\* the zero time.Time is before every instant of the model
ZeroTime == -1

\* the zero BackupMetadata
ZeroMetadata == BackupMetadata("", "", "", ZeroTime, 0, "", "nil")

\* what the caller's last call returned
DiskRet(op, id, data, metadata, list, err) ==
    [op |-> op, id |-> id, data |-> data, metadata |-> metadata, list |-> list, err |-> err]

\* no call has returned yet
NoDiskRet == DiskRet("none", "", "", ZeroMetadata, <<>>, <<>>)

\* no stream: Backup has not returned one
NoReader == [open |-> FALSE, src |-> "", data |-> "", closes |-> 0]

\* the locals of Execute / Restore before the first statement, with the
\* backend calls the call has made (steps), the errors they returned (errs)
\* and what the database backend was given to restore (restored)
IdleExecute ==
    [op |-> "", call |-> 0, backupID |-> "", dbMeta |-> [Name |-> "", Type |-> ""],
     reader |-> NoReader, id |-> "", metadata |-> ZeroMetadata, uploaded |-> ZeroMetadata,
     err |-> NilError, steps |-> <<>>, errs |-> <<>>, restored |-> <<>>]

\* what a call on the service returned: the record (NilMetadata for nil),
\* the list and the error, with the stream the call got, the error Upload
\* gave it and its locals when it returned
ExecuteRet(done, metadata, err, reader, uploadErr, local, list) ==
    [done |-> done, metadata |-> metadata, err |-> err, reader |-> reader,
     uploadErr |-> uploadErr, list |-> list, op |-> local.op, call |-> local.call,
     backupID |-> local.backupID,
     dbMeta |-> local.dbMeta, uploaded |-> local.uploaded,
     steps |-> local.steps, errs |-> local.errs, restored |-> local.restored]

\* a nil *BackupMetadata
NilMetadata == [ZeroMetadata EXCEPT !.ID = "nil"]

\* no Execute has returned yet
NoExecuteRet == ExecuteRet(FALSE, NilMetadata, NilError, NoReader, NilError, IdleExecute, <<>>)

\* ------------------------------------------------------------------------
\* Registry (core/registry.go)
\* ------------------------------------------------------------------------

\* make(map[string]...): the empty map
EmptyMap == [n \in {} |-> NilFactory]

\* r.databases or r.storages
RegistryMap(kind) == IF kind = "database" THEN databases ELSE storages

\* a store that replaces the map by one with the new entry alone
MapStoreAlone(m, name, factory) == [n \in {name} |-> factory]

\* MapStore as it would be if a registered name were never overwritten
MapStoreKeepFirst(m, name, factory) ==
    IF name \in DOMAIN m THEN m
    ELSE [n \in DOMAIN m \cup {name} |-> IF n = name THEN factory ELSE m[n]]

\* m[name] = factory
MapStore(m, name, factory) ==
    [n \in DOMAIN m \cup {name} |-> IF n = name THEN factory ELSE m[n]]

\* MapLookup as it would be if a missing name fell back to a default constructor
MapLookupWithDefault(m, name) ==
    IF name \in DOMAIN m
    THEN [factory |-> m[name], exists |-> TRUE]
    ELSE [factory |-> "factoryA", exists |-> TRUE]

\* factory, exists := m[name]
MapLookup(m, name) ==
    IF name \in DOMAIN m
    THEN [factory |-> m[name], exists |-> TRUE]
    ELSE [factory |-> NilFactory, exists |-> FALSE]

\* sync.RWMutex.Lock, first half: the writer takes the writers' mutex and
\* announces itself, after which new readers wait
CanLock(m) == m.w = NoProc

\* CanAcquire as it would be if the writer did not wait for the readers
CanAcquireAtOnce(m, p) == m.w = p /\ ~m.held

\* sync.RWMutex.Lock, second half: the announced writer waits for the
\* active readers to leave
CanAcquire(m, p) == m.w = p /\ ~m.held /\ m.readers = 0

\* CanRLock as it would be if readers did not wait for the writer
CanRLockIgnoringWriter(m) == m.readers >= 0

\* sync.RWMutex.RLock: a reader enters unless a writer is announced or holds
CanRLock(m) == m.w = NoProc

IdleCall == [op |-> "none", kind |-> "database", name |-> "test",
             factory |-> NilFactory, config |-> "cfg1"]

IdleLocal == [factory |-> NilFactory, exists |-> FALSE, names |-> <<>>]

NoRet == [provider |-> NilProvider, err |-> NilError, names |-> <<>>]

\* the goroutines that share the lock of a Registry
Goroutines == {1, 2, 3}

\* a Config: the fields Validate reads
Config(host, username, type, bucket, path) ==
    [Database |-> [Host |-> host, Username |-> username],
     Storage |-> [Type |-> type, Bucket |-> bucket, Path |-> path]]

\* the Config LoadConfigFromEnv builds in an empty environment
DefaultConfig == Config("localhost", "postgres", "disk", "", "./backups")

\* Validate not called on the Config yet
NotValidated == [called |-> FALSE, err |-> NilError]

\* NewRegistry: both maps made empty
NewRegistry == [databases |-> EmptyMap, storages |-> EmptyMap]

\* no call made yet on a registry of the process
NoDefaultRet ==
    [via |-> "none", op |-> "none", kind |-> "database", name |-> "",
     factory |-> NilFactory, provider |-> NilProvider, err |-> NilError, names |-> <<>>]

InitRegistry ==
    /\ databases = EmptyMap
    /\ storages = EmptyMap
    /\ mu = [w |-> NoProc, held |-> FALSE, readers |-> 0]
    /\ writing = {}
    /\ regPc = [p \in Procs |-> "idle"]
    /\ regCall = [p \in Procs |-> IdleCall]
    /\ regLocal = [p \in Procs |-> IdleLocal]
    /\ regRet = [p \in Procs |-> NoRet]
    /\ calls = [f \in Factories |-> 0]
    /\ regOps = 0
    /\ lastRegistered = [k \in Kinds |-> [n \in Names |-> NilFactory]]
    /\ regCount = [k \in Kinds |-> [n \in Names |-> 0]]
    /\ invoked = [p \in Procs |-> <<>>]
    /\ legit = [p \in Procs |-> {}]
    /\ dir = EmptyDir
    /\ now = 0
    /\ diskRet = NoDiskRet
    /\ diskOps = 0
    /\ uploaded = {}
    /\ uploads = 0
    /\ uploadErrs = 0
    /\ uploadFault = "none"
    /\ uploadArg = ZeroMetadata
    /\ deleted = {}
    /\ exPc = [p \in Procs |-> "idle"]
    /\ exLocal = [p \in Procs |-> IdleExecute]
    /\ exRet = [p \in Procs |-> NoExecuteRet]
    /\ exOps = 0
    /\ assigned = {}
    /\ DefaultRegistry = NewRegistry
    /\ otherRegistry = NewRegistry
    /\ initialised = {}
    /\ defRet = NoDefaultRet
    /\ defOps = 0
    /\ pkgRegistered = {}
    /\ appConfig = DefaultConfig
    /\ validateRet = NotValidated
    /\ configOps = 0
    /\ lockMu = [w |-> NoProc, held |-> FALSE, readers |-> 0]
    /\ lockPc = [g \in Goroutines |-> "idle"]
    /\ lockOps = 0
    /\ inConstructor = {}
    /\ objects = EmptyBucket

\* a goroutine calls RegisterDatabase(name, factory) or RegisterStorage(name, factory)
CallRegister(p) ==
    /\ regPc[p] = "idle"
    /\ regOps < MaxRegistryOps
    /\ \E k \in Kinds, n \in Names, f \in Factories :
         regCall' = [regCall EXCEPT ![p] =
            [op |-> "Register", kind |-> k, name |-> n, factory |-> f, config |-> "cfg1"]]
    /\ regPc' = [regPc EXCEPT ![p] = "reg_lock"]
    /\ regLocal' = [regLocal EXCEPT ![p] = IdleLocal]
    /\ regRet' = [regRet EXCEPT ![p] = NoRet]
    /\ invoked' = [invoked EXCEPT ![p] = <<>>]
    /\ legit' = [legit EXCEPT ![p] = {}]
    /\ regOps' = regOps + 1
    /\ UNCHANGED <<databases, storages, mu, writing, calls, lastRegistered, regCount,
                   diskVars, backupVars, defaultVars, configVars, lockVars, s3Vars>>

\* RegisterDatabase / RegisterStorage: r.mu.Lock(), the writer announces itself
RegisterLock(p) ==
    /\ regPc[p] = "reg_lock"
    /\ CanLock(mu)
    /\ mu' = [mu EXCEPT !.w = p]
    /\ regPc' = [regPc EXCEPT ![p] = "reg_wait"]
    /\ UNCHANGED <<databases, storages, writing, regCall, regLocal, regRet, calls,
                   regOps, lastRegistered, regCount, invoked, legit,
                   diskVars, backupVars, defaultVars, configVars, lockVars, s3Vars>>

\* RegisterDatabase / RegisterStorage: r.mu.Lock() returns once the readers left
RegisterAcquire(p) ==
    /\ regPc[p] = "reg_wait"
    /\ CanAcquire(mu, p)
    /\ mu' = [mu EXCEPT !.held = TRUE]
    /\ regPc' = [regPc EXCEPT ![p] = "reg_write"]
    /\ UNCHANGED <<databases, storages, writing, regCall, regLocal, regRet, calls,
                   regOps, lastRegistered, regCount, invoked, legit,
                   diskVars, backupVars, defaultVars, configVars, lockVars, s3Vars>>

\* r.databases[name] = factory begins: a Go map assignment is not atomic,
\* the map is being modified until RegisterStore
RegisterWrite(p) ==
    /\ regPc[p] = "reg_write"
    /\ writing' = writing \cup {[proc |-> p, kind |-> regCall[p].kind,
                                 name |-> regCall[p].name,
                                 factory |-> regCall[p].factory]}
    /\ regPc' = [regPc EXCEPT ![p] = "reg_store"]
    /\ UNCHANGED <<databases, storages, mu, regCall, regLocal, regRet, calls,
                   regOps, lastRegistered, regCount, invoked, legit,
                   diskVars, backupVars, defaultVars, configVars, lockVars, s3Vars>>

\* r.databases[name] = factory is done
RegisterStore(p) ==
    LET c == regCall[p] IN
    /\ regPc[p] = "reg_store"
    /\ IF c.kind = "database"
       THEN /\ databases' = MapStore(databases, c.name, c.factory)
            /\ UNCHANGED storages
       ELSE /\ storages' = MapStore(storages, c.name, c.factory)
            /\ UNCHANGED databases
    /\ writing' = {w \in writing : w.proc # p}
    /\ lastRegistered' = [lastRegistered EXCEPT ![c.kind][c.name] = c.factory]
    /\ regCount' = [regCount EXCEPT ![c.kind][c.name] = @ + 1]
    /\ legit' = [q \in Procs |->
                   IF /\ regPc[q] \in {"get_rlock", "get_lookup"}
                      /\ regCall[q].kind = c.kind
                      /\ regCall[q].name = c.name
                   THEN legit[q] \cup {[factory |-> c.factory, exists |-> TRUE]}
                   ELSE legit[q]]
    /\ regPc' = [regPc EXCEPT ![p] = "reg_unlock"]
    /\ UNCHANGED <<mu, regCall, regLocal, regRet, calls, regOps, invoked,
                   diskVars, backupVars, defaultVars, configVars, lockVars, s3Vars>>

\* defer r.mu.Unlock(), and the call returns
RegisterUnlock(p) ==
    /\ regPc[p] = "reg_unlock"
    /\ mu' = [mu EXCEPT !.w = NoProc, !.held = FALSE]
    /\ regPc' = [regPc EXCEPT ![p] = "idle"]
    /\ regCall' = [regCall EXCEPT ![p].op = "Registered"]
    /\ UNCHANGED <<databases, storages, writing, regLocal, regRet, calls,
                   regOps, lastRegistered, regCount, invoked, legit,
                   diskVars, backupVars, defaultVars, configVars, lockVars, s3Vars>>

\* a goroutine calls GetDatabase(name, config) or GetStorage(ctx, name, config)
CallGet(p) ==
    /\ regPc[p] = "idle"
    /\ regOps < MaxRegistryOps
    /\ \E k \in Kinds, n \in Names, cfg \in Configs :
         /\ regCall' = [regCall EXCEPT ![p] =
              [op |-> "Get", kind |-> k, name |-> n, factory |-> NilFactory, config |-> cfg]]
         /\ legit' = [legit EXCEPT ![p] = {MapLookup(RegistryMap(k), n)}]
    /\ regPc' = [regPc EXCEPT ![p] = "get_rlock"]
    /\ regLocal' = [regLocal EXCEPT ![p] = IdleLocal]
    /\ regRet' = [regRet EXCEPT ![p] = NoRet]
    /\ invoked' = [invoked EXCEPT ![p] = <<>>]
    /\ regOps' = regOps + 1
    /\ UNCHANGED <<databases, storages, mu, writing, calls, lastRegistered, regCount,
                   diskVars, backupVars, defaultVars, configVars, lockVars, s3Vars>>

\* GetDatabase / GetStorage: r.mu.RLock()
GetRLock(p) ==
    /\ regPc[p] = "get_rlock"
    /\ CanRLock(mu)
    /\ mu' = [mu EXCEPT !.readers = @ + 1]
    /\ regPc' = [regPc EXCEPT ![p] = "get_lookup"]
    /\ UNCHANGED <<databases, storages, writing, regCall, regLocal, regRet, calls,
                   regOps, lastRegistered, regCount, invoked, legit,
                   diskVars, backupVars, defaultVars, configVars, lockVars, s3Vars>>

\* what factory, exists := r.databases[name] may yield: the entry, or, when
\* the map is being assigned at the same time (a data race), the entry
\* before, the entry after or a torn value
LookupOutcomes(kind, name) ==
    { MapLookup(RegistryMap(kind), name) }
    \cup UNION { { MapLookup(MapStore(RegistryMap(kind), w.name, w.factory), name),
                   [factory |-> CorruptFactory, exists |-> TRUE] } :
                 w \in {x \in writing : x.kind = kind} }

\* GetDatabase / GetStorage: factory, exists := r.databases[name]
GetLookup(p) ==
    /\ regPc[p] = "get_lookup"
    /\ \E r \in LookupOutcomes(regCall[p].kind, regCall[p].name) :
         regLocal' = [regLocal EXCEPT ![p].factory = r.factory, ![p].exists = r.exists]
    /\ regPc' = [regPc EXCEPT ![p] = "get_runlock"]
    /\ UNCHANGED <<databases, storages, mu, writing, regCall, regRet, calls,
                   regOps, lastRegistered, regCount, invoked, legit,
                   diskVars, backupVars, defaultVars, configVars, lockVars, s3Vars>>

\* GetDatabase / GetStorage: r.mu.RUnlock()
GetRUnlock(p) ==
    /\ regPc[p] = "get_runlock"
    /\ mu' = [mu EXCEPT !.readers = @ - 1]
    /\ regPc' = [regPc EXCEPT ![p] = "get_check"]
    /\ UNCHANGED <<databases, storages, writing, regCall, regLocal, regRet, calls,
                   regOps, lastRegistered, regCount, invoked, legit,
                   diskVars, backupVars, defaultVars, configVars, lockVars, s3Vars>>

\* a goroutine calls ListDatabases() or ListStorages()
CallList(p) ==
    /\ regPc[p] = "idle"
    /\ regOps < MaxRegistryOps
    /\ \E k \in Kinds :
         regCall' = [regCall EXCEPT ![p] =
            [op |-> "List", kind |-> k, name |-> "", factory |-> NilFactory, config |-> "cfg1"]]
    /\ regPc' = [regPc EXCEPT ![p] = "list_rlock"]
    /\ regLocal' = [regLocal EXCEPT ![p] = IdleLocal]
    /\ regRet' = [regRet EXCEPT ![p] = NoRet]
    /\ invoked' = [invoked EXCEPT ![p] = <<>>]
    /\ legit' = [legit EXCEPT ![p] = {}]
    /\ regOps' = regOps + 1
    /\ UNCHANGED <<databases, storages, mu, writing, calls, lastRegistered, regCount,
                   diskVars, backupVars, defaultVars, configVars, lockVars, s3Vars>>

\* ListDatabases / ListStorages: r.mu.RLock()
ListRLock(p) ==
    /\ regPc[p] = "list_rlock"
    /\ CanRLock(mu)
    /\ mu' = [mu EXCEPT !.readers = @ + 1]
    /\ regPc' = [regPc EXCEPT ![p] = "list_range"]
    /\ UNCHANGED <<databases, storages, writing, regCall, regLocal, regRet, calls,
                   regOps, lastRegistered, regCount, invoked, legit,
                   diskVars, backupVars, defaultVars, configVars, lockVars, s3Vars>>

\* a loop that may visit a key more than once and miss another
RangeWithRepeats(keys) == [1..Cardinality(keys) -> keys]

\* the orders in which for name := range m may visit the keys of a map:
\* every key once, in any order
RangeOrders(keys) ==
    { s \in [1..Cardinality(keys) -> keys] : \A i, j \in DOMAIN s : i # j => s[i] # s[j] }

\* what the range loop may collect: the keys of the map in some order, or,
\* when the map is being assigned at the same time (a data race), the keys
\* before, the keys after or a torn key
RangeOutcomes(kind) ==
    RangeOrders(DOMAIN RegistryMap(kind))
    \cup UNION { RangeOrders(DOMAIN RegistryMap(kind) \cup {w.name}) \cup {<<CorruptFactory>>} :
                 w \in {x \in writing : x.kind = kind} }

\* ListDatabases / ListStorages: for name := range r.databases { names = append(names, name) }
ListRange(p) ==
    /\ regPc[p] = "list_range"
    /\ \E s \in RangeOutcomes(regCall[p].kind) :
         regLocal' = [regLocal EXCEPT ![p].names = s]
    /\ regPc' = [regPc EXCEPT ![p] = "list_runlock"]
    /\ UNCHANGED <<databases, storages, mu, writing, regCall, regRet, calls,
                   regOps, lastRegistered, regCount, invoked, legit,
                   diskVars, backupVars, defaultVars, configVars, lockVars, s3Vars>>

\* ListDatabases / ListStorages: return names, and the deferred r.mu.RUnlock()
ListReturn(p) ==
    /\ regPc[p] = "list_runlock"
    /\ mu' = [mu EXCEPT !.readers = @ - 1]
    /\ regRet' = [regRet EXCEPT ![p] =
          [provider |-> NilProvider, err |-> NilError, names |-> regLocal[p].names]]
    /\ regLocal' = [regLocal EXCEPT ![p] = IdleLocal]
    /\ regPc' = [regPc EXCEPT ![p] = "idle"]
    /\ regCall' = [regCall EXCEPT ![p].op = "Listed"]
    /\ UNCHANGED <<databases, storages, writing, calls,
                   regOps, lastRegistered, regCount, invoked, legit,
                   diskVars, backupVars, defaultVars, configVars, lockVars, s3Vars>>

\* fmt.Errorf("database provider '%s' not registered", name)
NotRegisteredError(kind, name) ==
    NewError(kind \o " provider '" \o name \o "' not registered")

\* GetDatabase / GetStorage: if !exists { return nil, fmt.Errorf(...) }
GetNotRegistered(p) ==
    /\ regPc[p] = "get_check"
    /\ ~regLocal[p].exists
    /\ regRet' = [regRet EXCEPT ![p] =
          [provider |-> NilProvider,
           err |-> NotRegisteredError(regCall[p].kind, regCall[p].name),
           names |-> <<>>]]
    /\ regPc' = [regPc EXCEPT ![p] = "idle"]
    /\ regCall' = [regCall EXCEPT ![p].op = "Got"]
    /\ regLocal' = [regLocal EXCEPT ![p] = IdleLocal]
    /\ legit' = [legit EXCEPT ![p] = {}]
    /\ UNCHANGED <<databases, storages, mu, writing, calls,
                   regOps, lastRegistered, regCount, invoked,
                   diskVars, backupVars, defaultVars, configVars, lockVars, s3Vars>>

\* what GetDatabase / GetStorage returns from the constructor's result:
\* return factory(config)
GetResult(name, res) == res

\* GetDatabase / GetStorage: return factory(config), the constructor runs
\* with no lock held
GetConstruct(p) ==
    LET f == regLocal[p].factory
        res == FactoryResult(f, regCall[p].config)
        out == GetResult(regCall[p].name, res) IN
    /\ regPc[p] = "get_check"
    /\ regLocal[p].exists
    /\ calls' = [g \in Factories |-> IF g = f THEN calls[g] + 1 ELSE calls[g]]
    /\ invoked' = [invoked EXCEPT ![p] = Append(@, <<f, regCall[p].config>>)]
    /\ regRet' = [regRet EXCEPT ![p] =
          [provider |-> out.provider, err |-> out.err, names |-> <<>>]]
    /\ regPc' = [regPc EXCEPT ![p] = "idle"]
    /\ regCall' = [regCall EXCEPT ![p].op = "Got"]
    /\ regLocal' = [regLocal EXCEPT ![p] = IdleLocal]
    /\ legit' = [legit EXCEPT ![p] = {}]
    /\ UNCHANGED <<databases, storages, mu, writing,
                   regOps, lastRegistered, regCount,
                   diskVars, backupVars, defaultVars, configVars, lockVars, s3Vars>>

NextRegistry ==
    \E p \in Procs :
        \/ CallRegister(p)
        \/ RegisterLock(p)
        \/ RegisterAcquire(p)
        \/ RegisterWrite(p)
        \/ RegisterStore(p)
        \/ RegisterUnlock(p)
        \/ CallGet(p)
        \/ GetRLock(p)
        \/ GetLookup(p)
        \/ GetRUnlock(p)
        \/ GetNotRegistered(p)
        \/ GetConstruct(p)
        \/ CallList(p)
        \/ ListRLock(p)
        \/ ListRange(p)
        \/ ListReturn(p)

SpecRegistry == InitRegistry /\ [][NextRegistry]_vars

\* ------------------------------------------------------------------------
\* Disk storage provider (storage/disk/disk.go)
\* ------------------------------------------------------------------------

\* calls on the disk Provider over a run
MaxDiskOps == 3

\* database names and types the records carry
DbNames == {"testdb"}
DbTypes == {"postgres"}

\* IDs callers give their records
RecordIDs == {"test-backup", "b2"}

\* payloads the streams carry
Payloads == {"", "test backup data!"}

\* what may go wrong in an Upload: reading the stream, writing the backup
\* file (nothing written, or the file left truncated), writing the .meta file
Faults == {"none", "read", "write", "truncate", "meta"}

\* fmt.Errorf(msg + ": %w", cause)
Wrapf(msg, cause) == <<msg \o ": " \o ErrorMsg(cause)>> \o cause

\* the operating system's errors
ReadFailed == NewError("unexpected EOF")
WriteFailed == NewError("no space left on device")

\* os.WriteFile(name, data): the file is created or replaced
WriteFile(d, name, data, t) ==
    [n \in DOMAIN d \cup {name} |->
        IF n = name THEN [isDir |-> FALSE, data |-> data, modTime |-> t] ELSE d[n]]

\* os.Remove(name)
RemoveFile(d, name) == [n \in DOMAIN d \ {name} |-> d[n]]

\* Provider.getBackupFilename
getBackupFilename(metadata) ==
    metadata.DatabaseName \o "_" \o metadata.DatabaseType \o "_"
        \o FormatCompact(metadata.Timestamp) \o ".dump"

\* a .meta file without the Checksum line
MetadataContentNoChecksum(metadata) ==
    "ID: " \o metadata.ID \o "\n"
        \o "DatabaseName: " \o metadata.DatabaseName \o "\n"
        \o "DatabaseType: " \o metadata.DatabaseType \o "\n"
        \o "Timestamp: " \o FormatRFC3339(metadata.Timestamp) \o "\n"
        \o "Size: " \o Itoa(metadata.Size) \o "\n"

\* the .meta file's content, fmt.Sprintf("ID: %s\nDatabaseName: %s\n...")
MetadataContent(metadata) ==
    "ID: " \o metadata.ID \o "\n"
        \o "DatabaseName: " \o metadata.DatabaseName \o "\n"
        \o "DatabaseType: " \o metadata.DatabaseType \o "\n"
        \o "Timestamp: " \o FormatRFC3339(metadata.Timestamp) \o "\n"
        \o "Size: " \o Itoa(metadata.Size) \o "\n"
        \o "Checksum: " \o metadata.Checksum \o "\n"

\* hex.EncodeToString(md5.Sum(data)) of every payload, computed once
Md5Hex == [data \in Payloads |-> EncodeToString(Md5Sum(data))]

\* a checksum taken before the stream is read
ChecksumOfNothing(data) == Md5Hex[""]

\* the checksum Upload computes: hex.EncodeToString(md5.Sum(data))
UploadChecksum(data) == Md5Hex[data]

\* an Upload that fails when the sidecar cannot be written
UploadSidecarFatal(d, t, data, fault, md, filename) ==
    CASE fault = "write" ->
           [dir |-> d, metadata |-> md,
            err |-> Wrapf("failed to write backup file", WriteFailed)]
      [] fault = "truncate" ->
           [dir |-> WriteFile(d, filename, "", t), metadata |-> md,
            err |-> Wrapf("failed to write backup file", WriteFailed)]
      [] fault = "meta" ->
           [dir |-> WriteFile(d, filename, data, t), metadata |-> md,
            err |-> Wrapf("failed to write metadata file", WriteFailed)]
      [] OTHER ->
           [dir |-> WriteFile(WriteFile(d, filename, data, t),
                              filename \o ".meta", MetadataContent(md), t),
            metadata |-> md, err |-> NilError]

\* Provider.Upload from os.WriteFile on: md is the record with Checksum and
\* Size set, filename the name getBackupFilename gave
UploadWrite(d, t, data, fault, md, filename) ==
    CASE fault = "write" ->
           [dir |-> d, metadata |-> md,
            err |-> Wrapf("failed to write backup file", WriteFailed)]
      [] fault = "truncate" ->
           [dir |-> WriteFile(d, filename, "", t), metadata |-> md,
            err |-> Wrapf("failed to write backup file", WriteFailed)]
      [] fault = "meta" ->
           [dir |-> WriteFile(d, filename, data, t), metadata |-> md, err |-> NilError]
      [] OTHER ->
           [dir |-> WriteFile(WriteFile(d, filename, data, t),
                              filename \o ".meta", MetadataContent(md), t),
            metadata |-> md, err |-> NilError]

\* Provider.Upload once the stream is read: md is the record with Checksum and Size set
UploadData(d, t, data, fault, md) == UploadWrite(d, t, data, fault, md, getBackupFilename(md))

\* an Upload that sets Checksum and Size before it tests the error of io.ReadAll
UploadSetsBeforeRead(d, t, data, fault, metadata) ==
    IF fault = "read"
    THEN [dir |-> d,
          metadata |-> [metadata EXCEPT !.Checksum = ChecksumOfNothing(data), !.Size = 0],
          err |-> Wrapf("failed to read backup data", ReadFailed)]
    ELSE UploadData(d, t, data, fault,
                    [metadata EXCEPT !.Checksum = UploadChecksum(data), !.Size = Len(data)])

\* Provider.Upload: the directory and the record it leaves, and its error
Upload(d, t, data, fault, metadata) ==
    IF fault = "read"
    THEN [dir |-> d, metadata |-> metadata,
          err |-> Wrapf("failed to read backup data", ReadFailed)]
    ELSE UploadData(d, t, data, fault,
                    [metadata EXCEPT !.Checksum = UploadChecksum(data), !.Size = Len(data)])

\* Provider.parseMetadata, one line
ParseLine(backup, line) ==
    LET parts == SplitN2(line, ": ")
    IN IF Len(parts) # 2 THEN backup
       ELSE LET key == parts[1]
                value == parts[2]
            IN CASE key = "ID" -> [backup EXCEPT !.ID = value]
                 [] key = "DatabaseName" -> [backup EXCEPT !.DatabaseName = value]
                 [] key = "DatabaseType" -> [backup EXCEPT !.DatabaseType = value]
                 [] key = "Checksum" -> [backup EXCEPT !.Checksum = value]
                 [] key = "Timestamp" ->
                      IF ParseRFC3339(value).ok
                      THEN [backup EXCEPT !.Timestamp = ParseRFC3339(value).t]
                      ELSE backup
                 [] OTHER -> backup

RECURSIVE ParseLines(_, _)
ParseLines(backup, lines) ==
    IF lines = <<>> THEN backup
    ELSE ParseLines(ParseLine(backup, Head(lines)), Tail(lines))

\* Provider.parseMetadata
parseMetadata(backup, content) == ParseLines(backup, Split(content, "\n"))

\* the directory entries List turns into records
ListedNames(d) ==
    {n \in DOMAIN d : ~d[n].isDir /\ ~HasSuffix(n, ".meta") /\ HasSuffix(n, ".dump")}

\* the record List builds for one entry
ListRecord(d, name) ==
    LET backup == [ZeroMetadata EXCEPT !.ID = name,
                                       !.Timestamp = d[name].modTime,
                                       !.Size = Len(d[name].data)]
        meta == name \o ".meta"
    IN IF meta \in DOMAIN d /\ ~d[meta].isDir
       THEN parseMetadata(backup, d[meta].data)
       ELSE backup

\* the sequences without repetition of all the elements of S
Orders(S) ==
    { s \in [1..Cardinality(S) -> S] : \A i, j \in DOMAIN s : i # j => s[i] # s[j] }

\* Provider.List: the sequences it may return. sort.Slice with
\* Timestamp.After as less leaves no record before one with a later
\* Timestamp, and records of equal Timestamp in any order
List(d) ==
    { backups \in { [i \in DOMAIN o |-> ListRecord(d, o[i])] : o \in Orders(ListedNames(d)) } :
        \A i, j \in DOMAIN backups : i < j => backups[j].Timestamp <= backups[i].Timestamp }

\* Provider.Download: the bytes of the file and the error
Download(d, backupID) ==
    IF backupID \in DOMAIN d
    THEN [data |-> d[backupID].data, err |-> NilError]
    ELSE [data |-> "", err |-> NewError("backup not found: " \o backupID)]

\* a Delete that leaves the sidecar
DeleteKeepsSidecar(d, backupID) ==
    IF backupID \in DOMAIN d
    THEN [dir |-> RemoveFile(d, backupID), err |-> NilError]
    ELSE [dir |-> d, err |-> NewError("backup not found: " \o backupID)]

\* Provider.Delete: the directory it leaves and the error
Delete(d, backupID) ==
    IF backupID \in DOMAIN d
    THEN [dir |-> RemoveFile(RemoveFile(d, backupID), backupID \o ".meta"), err |-> NilError]
    ELSE [dir |-> d, err |-> NewError("backup not found: " \o backupID)]

\* a file another program left in the directory
ForeignNames == {"notes.dump"}
ForeignDir == [n \in ForeignNames |-> [isDir |-> FALSE, data |-> "", modTime |-> 0]]

\* disk.New(config): os.MkdirAll leaves the directory empty when it made it,
\* and as it was when it existed
InitDisk ==
    /\ dir \in {EmptyDir, ForeignDir}
    /\ now = 0
    /\ diskRet = NoDiskRet
    /\ diskOps = 0
    /\ uploaded = {}
    /\ uploads = 0
    /\ uploadErrs = 0
    /\ uploadFault = "none"
    /\ uploadArg = ZeroMetadata
    /\ deleted = {}
    /\ exPc = [p \in Procs |-> "idle"]
    /\ exLocal = [p \in Procs |-> IdleExecute]
    /\ exRet = [p \in Procs |-> NoExecuteRet]
    /\ exOps = 0
    /\ assigned = {}
    /\ DefaultRegistry = NewRegistry
    /\ otherRegistry = NewRegistry
    /\ initialised = {}
    /\ defRet = NoDefaultRet
    /\ defOps = 0
    /\ pkgRegistered = {}
    /\ appConfig = DefaultConfig
    /\ validateRet = NotValidated
    /\ configOps = 0
    /\ lockMu = [w |-> NoProc, held |-> FALSE, readers |-> 0]
    /\ lockPc = [g \in Goroutines |-> "idle"]
    /\ lockOps = 0
    /\ inConstructor = {}
    /\ objects = EmptyBucket
    /\ databases = EmptyMap
    /\ storages = EmptyMap
    /\ mu = [w |-> NoProc, held |-> FALSE, readers |-> 0]
    /\ writing = {}
    /\ regPc = [p \in Procs |-> "idle"]
    /\ regCall = [p \in Procs |-> IdleCall]
    /\ regLocal = [p \in Procs |-> IdleLocal]
    /\ regRet = [p \in Procs |-> NoRet]
    /\ calls = [f \in Factories |-> 0]
    /\ regOps = 0
    /\ lastRegistered = [k \in Kinds |-> [n \in Names |-> NilFactory]]
    /\ regCount = [k \in Kinds |-> [n \in Names |-> 0]]
    /\ invoked = [p \in Procs |-> <<>>]
    /\ legit = [p \in Procs |-> {}]

\* time passes
Tick ==
    /\ now < MaxTime
    /\ now' = now + 1
    /\ UNCHANGED <<dir, diskRet, diskOps, uploaded, uploads, uploadErrs, uploadFault, uploadArg, deleted, registryVars, backupVars, defaultVars, configVars, lockVars, s3Vars>>

\* the caller uploads a stream under a record it stamps with time.Now()
UploadCall ==
    /\ diskOps < MaxDiskOps
    /\ \E data \in Payloads, fault \in Faults, id \in RecordIDs,
          name \in DbNames, type \in DbTypes :
         \E r \in {Upload(dir, now, data, fault,
                          BackupMetadata(id, name, type, now, 0, "", "nil"))} :
            /\ dir' = r.dir
            /\ uploadArg' = BackupMetadata(id, name, type, now, 0, "", "nil")
            /\ diskRet' = DiskRet("Upload", id, data, r.metadata, <<>>, r.err)
            /\ uploaded' = IF r.err = NilError
                           THEN uploaded \cup {<<data, r.metadata.Size, r.metadata.Checksum>>}
                           ELSE uploaded
            /\ uploads' = IF r.err = NilError THEN uploads + 1 ELSE uploads
            /\ uploadErrs' = IF r.err = NilError THEN uploadErrs ELSE uploadErrs + 1
            /\ uploadFault' = fault
    /\ diskOps' = diskOps + 1
    /\ UNCHANGED <<now, deleted, registryVars, backupVars, defaultVars, configVars, lockVars, s3Vars>>

\* the caller lists the backups
ListCall ==
    /\ diskOps < MaxDiskOps
    /\ \E backups \in List(dir) :
         diskRet' = DiskRet("List", "", "", ZeroMetadata, backups, NilError)
    /\ diskOps' = diskOps + 1
    /\ UNCHANGED <<dir, now, uploaded, uploads, uploadErrs, uploadFault, uploadArg, deleted, registryVars, backupVars, defaultVars, configVars, lockVars, s3Vars>>

\* the IDs a caller has at hand: those of its records and the file names
KnownIDs == RecordIDs \cup DOMAIN dir

\* the caller downloads a backup
DownloadCall ==
    /\ diskOps < MaxDiskOps
    /\ \E id \in KnownIDs :
         \E r \in {Download(dir, id)} :
            diskRet' = DiskRet("Download", id, r.data, ZeroMetadata, <<>>, r.err)
    /\ diskOps' = diskOps + 1
    /\ UNCHANGED <<dir, now, uploaded, uploads, uploadErrs, uploadFault, uploadArg, deleted, registryVars, backupVars, defaultVars, configVars, lockVars, s3Vars>>

\* the caller deletes a backup
DeleteCall ==
    /\ diskOps < MaxDiskOps
    /\ \E id \in KnownIDs :
         \E r \in {Delete(dir, id)} :
            /\ dir' = r.dir
            /\ diskRet' = DiskRet("Delete", id, "", ZeroMetadata, <<>>, r.err)
            /\ deleted' = IF r.err = NilError THEN deleted \cup {id} ELSE deleted
    /\ diskOps' = diskOps + 1
    /\ UNCHANGED <<now, uploaded, uploads, uploadErrs, uploadFault, uploadArg, registryVars, backupVars, defaultVars, configVars, lockVars, s3Vars>>

NextDisk ==
    \/ Tick
    \/ UploadCall
    \/ ListCall
    \/ DownloadCall
    \/ DeleteCall

SpecDisk == InitDisk /\ [][NextDisk]_vars

\* ------------------------------------------------------------------------
\* storage/s3: Provider.Upload, next to the disk Provider's

\* p.config.Prefix
S3Prefix == "backups"

\* path.Join(a, b) of two clean, relative paths
PathJoin(a, b) == IF a = "" THEN b ELSE IF b = "" THEN a ELSE a \o "/" \o b

\* Provider.getBackupKey
getBackupKey(metadata) ==
    PathJoin(S3Prefix,
             metadata.DatabaseName \o "_" \o metadata.DatabaseType \o "_"
                 \o FormatCompact(metadata.Timestamp) \o ".dump")

\* what may go wrong in an S3 Upload: reading the stream, the PutObject request
S3Faults == {"none", "read", "put"}

\* the SDK's error
PutFailed == NewError("operation error S3: PutObject")

\* PutObjectInput.Metadata
UserMetadata(metadata, checksum) ==
    [k \in {"database-name", "database-type", "backup-id", "timestamp", "checksum"} |->
        CASE k = "database-name" -> metadata.DatabaseName
          [] k = "database-type" -> metadata.DatabaseType
          [] k = "backup-id" -> metadata.ID
          [] k = "timestamp" -> FormatRFC3339(metadata.Timestamp)
          [] OTHER -> checksum]

\* the bucket after a PutObject that succeeded
PutObject(objs, key, body, metadata) ==
    [k \in DOMAIN objs \cup {key} |->
        IF k = key THEN [body |-> body, metadata |-> metadata] ELSE objs[k]]

\* Provider.Upload from getBackupKey on: md is the record with Checksum and Size set
S3UploadData(objs, data, fault, md) ==
    IF fault = "put"
    THEN [objects |-> objs, metadata |-> md,
          err |-> Wrapf("failed to upload to S3", PutFailed)]
    ELSE [objects |-> PutObject(objs, getBackupKey(md), data, UserMetadata(md, md.Checksum)),
          metadata |-> md, err |-> NilError]

\* an Upload that makes the key the record's ID
S3UploadSetsID(objs, data, fault, metadata) ==
    IF fault = "read"
    THEN [objects |-> objs, metadata |-> metadata,
          err |-> Wrapf("failed to read backup data", ReadFailed)]
    ELSE S3UploadData(objs, data, fault,
                      [metadata EXCEPT !.Checksum = UploadChecksum(data), !.Size = Len(data),
                                       !.ID = getBackupKey(metadata)])

\* s3 Provider.Upload: the bucket and the record it leaves, and its error
S3Upload(objs, data, fault, metadata) ==
    IF fault = "read"
    THEN [objects |-> objs, metadata |-> metadata,
          err |-> Wrapf("failed to read backup data", ReadFailed)]
    ELSE S3UploadData(objs, data, fault,
                      [metadata EXCEPT !.Checksum = UploadChecksum(data), !.Size = Len(data)])

\* the state when both Providers have been made and nothing was uploaded
InitUpload ==
    /\ dir = EmptyDir
    /\ now = 0
    /\ diskRet = NoDiskRet
    /\ diskOps = 0
    /\ uploaded = {}
    /\ uploads = 0
    /\ uploadErrs = 0
    /\ uploadFault = "none"
    /\ uploadArg = ZeroMetadata
    /\ deleted = {}
    /\ exPc = [p \in Procs |-> "idle"]
    /\ exLocal = [p \in Procs |-> IdleExecute]
    /\ exRet = [p \in Procs |-> NoExecuteRet]
    /\ exOps = 0
    /\ assigned = {}
    /\ DefaultRegistry = NewRegistry
    /\ otherRegistry = NewRegistry
    /\ initialised = {}
    /\ defRet = NoDefaultRet
    /\ defOps = 0
    /\ pkgRegistered = {}
    /\ appConfig = DefaultConfig
    /\ validateRet = NotValidated
    /\ configOps = 0
    /\ lockMu = [w |-> NoProc, held |-> FALSE, readers |-> 0]
    /\ lockPc = [g \in Goroutines |-> "idle"]
    /\ lockOps = 0
    /\ inConstructor = {}
    /\ objects = EmptyBucket
    /\ databases = EmptyMap
    /\ storages = EmptyMap
    /\ mu = [w |-> NoProc, held |-> FALSE, readers |-> 0]
    /\ writing = {}
    /\ regPc = [p \in Procs |-> "idle"]
    /\ regCall = [p \in Procs |-> IdleCall]
    /\ regLocal = [p \in Procs |-> IdleLocal]
    /\ regRet = [p \in Procs |-> NoRet]
    /\ calls = [f \in Factories |-> 0]
    /\ regOps = 0
    /\ lastRegistered = [k \in Kinds |-> [n \in Names |-> NilFactory]]
    /\ regCount = [k \in Kinds |-> [n \in Names |-> 0]]
    /\ invoked = [p \in Procs |-> <<>>]
    /\ legit = [p \in Procs |-> {}]

\* the caller uploads a stream to the bucket under a record it stamps with time.Now()
S3UploadCall ==
    /\ diskOps < MaxDiskOps
    /\ \E data \in Payloads, fault \in S3Faults, id \in RecordIDs,
          name \in DbNames, type \in DbTypes :
         \E r \in {S3Upload(objects, data, fault,
                            BackupMetadata(id, name, type, now, 0, "", "nil"))} :
            /\ objects' = r.objects
            /\ uploadArg' = BackupMetadata(id, name, type, now, 0, "", "nil")
            /\ diskRet' = DiskRet("S3Upload", id, data, r.metadata, <<>>, r.err)
            /\ uploadFault' = fault
    /\ diskOps' = diskOps + 1
    /\ UNCHANGED <<dir, now, uploaded, uploads, uploadErrs, deleted, registryVars, backupVars, defaultVars, configVars, lockVars>>

\* the caller uploads a stream again under the record its last Upload to the
\* directory left, Checksum and Size included
RetryCall ==
    /\ diskOps < MaxDiskOps
    /\ diskRet.op = "Upload"
    /\ \E data \in Payloads, fault \in Faults :
         \E r \in {Upload(dir, now, data, fault, diskRet.metadata)} :
            /\ dir' = r.dir
            /\ uploadArg' = diskRet.metadata
            /\ diskRet' = DiskRet("Upload", diskRet.id, data, r.metadata, <<>>, r.err)
            /\ uploaded' = IF r.err = NilError
                           THEN uploaded \cup {<<data, r.metadata.Size, r.metadata.Checksum>>}
                           ELSE uploaded
            /\ uploads' = IF r.err = NilError THEN uploads + 1 ELSE uploads
            /\ uploadErrs' = IF r.err = NilError THEN uploadErrs ELSE uploadErrs + 1
            /\ uploadFault' = fault
    /\ diskOps' = diskOps + 1
    /\ UNCHANGED <<now, deleted, registryVars, backupVars, defaultVars, configVars, lockVars, s3Vars>>

NextUpload ==
    \/ Tick
    \/ UploadCall
    \/ RetryCall
    \/ S3UploadCall

SpecUpload == InitUpload /\ [][NextUpload]_vars

\* ------------------------------------------------------------------------
\* BackupService (core/backup.go)
\* ------------------------------------------------------------------------

\* calls on the BackupService over a run
MaxExecutes == 2

\* the database backend's errors
GetMetadataFailed == NewError("metadata error")
BackupFailed == NewError("backup error")
RestoreFailed == NewError("restore error")

\* an error GetMetadata and Backup may both return
ConnectionLost == NewError("connection refused")

\* what GetMetadata may return
GetMetadataOutcomes ==
    {[dbMeta |-> [Name |-> name, Type |-> type], err |-> NilError] :
        name \in DbNames, type \in DbTypes}
    \cup {[dbMeta |-> [Name |-> "", Type |-> ""], err |-> err] :
            err \in {GetMetadataFailed, ConnectionLost}}

\* what Backup may return
BackupOutcomes ==
    {[reader |-> [open |-> TRUE, src |-> "database", data |-> data, closes |-> 0],
      err |-> NilError] : data \in Payloads}
    \cup {[reader |-> NoReader, err |-> err] : err \in {BackupFailed, ConnectionLost}}

\* what the database backend's Restore may return
RestoreOutcomes == {NilError, RestoreFailed}

\* generateBackupID: time.Now().Format("20060102-150405")
generateBackupID(t) == FormatCompact(t)

\* a service that goes on after an error
NeverFailed(err) == FALSE

\* if err != nil
Failed(err) == err # NilError

\* a record with nil Tags
NewRecordNilTags(id, dbMeta, t) ==
    BackupMetadata(id, dbMeta.Name, dbMeta.Type, t, 0, "", "nil")

\* &BackupMetadata{ID: ..., DatabaseName: dbMeta.Name, DatabaseType: dbMeta.Type,
\*                 Timestamp: ..., Tags: make(map[string]string)}
NewRecord(id, dbMeta, t) ==
    BackupMetadata(id, dbMeta.Name, dbMeta.Type, t, 0, "", "empty")

\* the stream closed only when Upload succeeded
CloseOnSuccess(reader, err) ==
    IF err = NilError THEN [reader EXCEPT !.closes = @ + 1] ELSE reader

\* defer reader.Close() of Execute: runs whatever Upload returned
DeferredClose(reader, err) == [reader EXCEPT !.closes = @ + 1]

\* the stream closed only when the database backend's Restore succeeded
RestoreCloseOnSuccess(reader, err) ==
    IF err = NilError THEN [reader EXCEPT !.closes = @ + 1] ELSE reader

\* defer reader.Close() of Restore: runs whatever the database backend returned
RestoreDeferredClose(reader, err) == [reader EXCEPT !.closes = @ + 1]

\* a Delete that makes a file name of the ID
DeleteArgAsFilename(backupID) == backupID \o ".dump"

\* the ID BackupService.Delete passes to the storage backend
DeleteArg(backupID) == backupID

\* the locals after a backend call: the call is noted, and its error if any
AfterStep(local, step, err) ==
    [local EXCEPT !.steps = Append(@, step),
                  !.errs = IF err = NilError THEN @ ELSE Append(@, <<step, err>>)]

\* the state after disk.New and NewBackupService
InitBackup ==
    /\ dir = EmptyDir
    /\ now = 0
    /\ diskRet = NoDiskRet
    /\ diskOps = 0
    /\ uploaded = {}
    /\ uploads = 0
    /\ uploadErrs = 0
    /\ uploadFault = "none"
    /\ uploadArg = ZeroMetadata
    /\ deleted = {}
    /\ exPc = [p \in Procs |-> "idle"]
    /\ exLocal = [p \in Procs |-> IdleExecute]
    /\ exRet = [p \in Procs |-> NoExecuteRet]
    /\ exOps = 0
    /\ assigned = {}
    /\ DefaultRegistry = NewRegistry
    /\ otherRegistry = NewRegistry
    /\ initialised = {}
    /\ defRet = NoDefaultRet
    /\ defOps = 0
    /\ pkgRegistered = {}
    /\ appConfig = DefaultConfig
    /\ validateRet = NotValidated
    /\ configOps = 0
    /\ lockMu = [w |-> NoProc, held |-> FALSE, readers |-> 0]
    /\ lockPc = [g \in Goroutines |-> "idle"]
    /\ lockOps = 0
    /\ inConstructor = {}
    /\ objects = EmptyBucket
    /\ databases = EmptyMap
    /\ storages = EmptyMap
    /\ mu = [w |-> NoProc, held |-> FALSE, readers |-> 0]
    /\ writing = {}
    /\ regPc = [p \in Procs |-> "idle"]
    /\ regCall = [p \in Procs |-> IdleCall]
    /\ regLocal = [p \in Procs |-> IdleLocal]
    /\ regRet = [p \in Procs |-> NoRet]
    /\ calls = [f \in Factories |-> 0]
    /\ regOps = 0
    /\ lastRegistered = [k \in Kinds |-> [n \in Names |-> NilFactory]]
    /\ regCount = [k \in Kinds |-> [n \in Names |-> 0]]
    /\ invoked = [p \in Procs |-> <<>>]
    /\ legit = [p \in Procs |-> {}]

\* what an Execute step leaves alone besides the directory and its own variables
ExecuteFrame ==
    <<now, diskRet, diskOps, uploaded, uploads, uploadErrs, uploadFault, uploadArg, deleted, registryVars, defaultVars, configVars, lockVars, s3Vars>>

\* the statements of Execute and of Restore in the order of the code, the
\* deferred Close where it runs
ExecuteOrder == <<"metadata", "backup", "id", "stamp", "upload", "close", "return">>
RestoreOrder == <<"download", "restore", "r_close", "r_return">>

\* the statement after pc in order
NextIn(order, pc) == order[(CHOOSE i \in DOMAIN order : order[i] = pc) + 1]

\* a service that closes the stream before it hands it on
CloseBeforeUse(pc) ==
    IF pc \in {"metadata", "backup", "id", "stamp", "upload", "close"}
    THEN NextIn(<<"metadata", "backup", "id", "stamp", "close", "upload", "return">>, pc)
    ELSE NextIn(<<"download", "r_close", "restore", "r_return">>, pc)

\* the statement that runs after the one at pc, when that one did not return
Following(pc) ==
    IF pc \in {ExecuteOrder[i] : i \in DOMAIN ExecuteOrder}
    THEN NextIn(ExecuteOrder, pc)
    ELSE NextIn(RestoreOrder, pc)

\* goroutine p calls Execute
ExecuteCall(p) ==
    /\ exPc[p] = "idle"
    /\ exOps < MaxExecutes
    /\ exOps' = exOps + 1
    /\ exPc' = [exPc EXCEPT ![p] = "metadata"]
    /\ exLocal' = [exLocal EXCEPT ![p] =
                      [IdleExecute EXCEPT !.op = "Execute", !.call = exOps + 1]]
    /\ exRet' = [exRet EXCEPT ![p] = NoExecuteRet]
    /\ UNCHANGED <<dir, assigned, ExecuteFrame>>

\* a return that drops the error
ExecuteSwallows(p, local, err) ==
    /\ exPc' = [exPc EXCEPT ![p] = "idle"]
    /\ exRet' = [exRet EXCEPT ![p] =
                    ExecuteRet(TRUE, NilMetadata, NilError, local.reader, NilError, local, <<>>)]
    /\ exLocal' = [exLocal EXCEPT ![p] = IdleExecute]

\* return nil, err (Execute) and return err (Restore): before the deferred Close
ExecuteFails(p, local, err) ==
    /\ exPc' = [exPc EXCEPT ![p] = "idle"]
    /\ exRet' = [exRet EXCEPT ![p] =
                    ExecuteRet(TRUE, NilMetadata, err, local.reader, NilError, local, <<>>)]
    /\ exLocal' = [exLocal EXCEPT ![p] = IdleExecute]

\* dbMeta, err := s.database.GetMetadata(); if err != nil { return nil, err }
ExecuteGetMetadata(p) ==
    /\ exPc[p] = "metadata"
    /\ \E out \in GetMetadataOutcomes :
         \E local \in {[AfterStep(exLocal[p], "GetMetadata", out.err)
                           EXCEPT !.dbMeta = out.dbMeta]} :
            IF Failed(out.err)
            THEN ExecuteFails(p, local, out.err)
            ELSE /\ exLocal' = [exLocal EXCEPT ![p] = local]
                 /\ exPc' = [exPc EXCEPT ![p] = Following(exPc[p])]
                 /\ UNCHANGED exRet
    /\ UNCHANGED <<dir, exOps, assigned, ExecuteFrame>>

\* reader, err := s.database.Backup(ctx); if err != nil { return nil, err }
ExecuteBackup(p) ==
    /\ exPc[p] = "backup"
    /\ \E out \in BackupOutcomes :
         \E local \in {[AfterStep(exLocal[p], "Backup", out.err)
                           EXCEPT !.reader = out.reader]} :
            IF Failed(out.err)
            THEN ExecuteFails(p, local, out.err)
            ELSE /\ exLocal' = [exLocal EXCEPT ![p] = local]
                 /\ exPc' = [exPc EXCEPT ![p] = Following(exPc[p])]
                 /\ UNCHANGED exRet
    /\ UNCHANGED <<dir, exOps, assigned, ExecuteFrame>>

\* ID: generateBackupID()
ExecuteGenerateID(p) ==
    /\ exPc[p] = "id"
    /\ exLocal' = [exLocal EXCEPT ![p].id = generateBackupID(now)]
    /\ assigned' = assigned \cup {<<exLocal[p].call, generateBackupID(now)>>}
    /\ exPc' = [exPc EXCEPT ![p] = Following(exPc[p])]
    /\ UNCHANGED <<dir, exRet, exOps, ExecuteFrame>>

\* Timestamp: time.Now(), which completes the record
ExecuteStamp(p) ==
    /\ exPc[p] = "stamp"
    /\ exLocal' = [exLocal EXCEPT ![p].metadata =
                      NewRecord(exLocal[p].id, exLocal[p].dbMeta, now)]
    /\ exPc' = [exPc EXCEPT ![p] = Following(exPc[p])]
    /\ UNCHANGED <<dir, exRet, exOps, assigned, ExecuteFrame>>

\* an Execute that removes what a failed Upload left
AfterUploadCleanup(local, r) ==
    IF r.err = NilError
    THEN [dir |-> r.dir,
          local |-> [AfterStep(local, "Upload", r.err)
                        EXCEPT !.metadata = r.metadata, !.uploaded = r.metadata,
                               !.err = r.err]]
    ELSE [dir |-> Delete(r.dir, getBackupFilename(r.metadata)).dir,
          local |-> [AfterStep(AfterStep(local, "Upload", r.err), "Delete", NilError)
                        EXCEPT !.metadata = r.metadata, !.uploaded = r.metadata,
                               !.err = r.err]]

\* Execute after Upload returned r: the directory is as Upload left it, and
\* err is kept for the test that follows the deferred Close
AfterUpload(local, r) ==
    [dir |-> r.dir,
     local |-> [AfterStep(local, "Upload", r.err)
                   EXCEPT !.metadata = r.metadata, !.uploaded = r.metadata,
                          !.err = r.err]]

\* err := s.storage.Upload(ctx, reader, metadata)
ExecuteUpload(p) ==
    /\ exPc[p] = "upload"
    /\ \E fault \in Faults :
         \E r \in {Upload(dir, now, exLocal[p].reader.data, fault, exLocal[p].metadata)} :
            \E a \in {AfterUpload(exLocal[p], r)} :
                /\ dir' = a.dir
                /\ exLocal' = [exLocal EXCEPT ![p] = a.local]
    /\ exPc' = [exPc EXCEPT ![p] = Following(exPc[p])]
    /\ UNCHANGED <<exRet, exOps, assigned, ExecuteFrame>>

\* the deferred reader.Close(), on the way out of Execute
ExecuteClose(p) ==
    /\ exPc[p] = "close"
    /\ exLocal' = [exLocal EXCEPT ![p].reader = DeferredClose(exLocal[p].reader, exLocal[p].err)]
    /\ exPc' = [exPc EXCEPT ![p] = Following(exPc[p])]
    /\ UNCHANGED <<dir, exRet, exOps, assigned, ExecuteFrame>>

\* if err != nil { return nil, err }; return metadata, nil
ExecuteReturn(p) ==
    /\ exPc[p] = "return"
    /\ exRet' = [exRet EXCEPT ![p] =
                    IF Failed(exLocal[p].err)
                    THEN ExecuteRet(TRUE, NilMetadata, exLocal[p].err, exLocal[p].reader,
                                    exLocal[p].err, exLocal[p], <<>>)
                    ELSE ExecuteRet(TRUE, exLocal[p].metadata, NilError, exLocal[p].reader,
                                    exLocal[p].err, exLocal[p], <<>>)]
    /\ exLocal' = [exLocal EXCEPT ![p] = IdleExecute]
    /\ exPc' = [exPc EXCEPT ![p] = "idle"]
    /\ UNCHANGED <<dir, exOps, assigned, ExecuteFrame>>

\* the IDs a caller of the service has at hand: those of the records Execute
\* built and the names of the backup files
ServiceIDs == {a[2] : a \in assigned} \cup ListedNames(dir)

\* goroutine p calls Restore(ctx, backupID)
RestoreCall(p) ==
    /\ exPc[p] = "idle"
    /\ exOps < MaxExecutes
    /\ exOps' = exOps + 1
    /\ \E id \in ServiceIDs :
         exLocal' = [exLocal EXCEPT ![p] =
                        [IdleExecute EXCEPT !.op = "Restore", !.call = exOps + 1,
                                            !.backupID = id]]
    /\ exPc' = [exPc EXCEPT ![p] = "download"]
    /\ exRet' = [exRet EXCEPT ![p] = NoExecuteRet]
    /\ UNCHANGED <<dir, assigned, ExecuteFrame>>

\* a Restore that compares the downloaded bytes with the Checksum List gives
VerifyDownload(d, backupID, r) ==
    IF r.err # NilError THEN r.err
    ELSE IF Md5Hex[r.data] # ListRecord(d, backupID).Checksum
         THEN NewError("checksum mismatch")
         ELSE NilError

\* the error Restore tests after Download: the one Download returned
AcceptDownload(d, backupID, r) == r.err

\* reader, err := s.storage.Download(ctx, backupID); if err != nil { return err }
RestoreDownload(p) ==
    /\ exPc[p] = "download"
    /\ \E r \in {Download(dir, exLocal[p].backupID)} :
         \E local \in {AfterStep(exLocal[p], "Download", r.err)} :
            IF Failed(AcceptDownload(dir, exLocal[p].backupID, r))
            THEN ExecuteFails(p, local, AcceptDownload(dir, exLocal[p].backupID, r))
            ELSE /\ exLocal' = [exLocal EXCEPT ![p] =
                                   [local EXCEPT !.reader =
                                       [open |-> TRUE, src |-> exLocal[p].backupID,
                                        data |-> r.data, closes |-> 0]]]
                 /\ exPc' = [exPc EXCEPT ![p] = Following(exPc[p])]
                 /\ UNCHANGED exRet
    /\ UNCHANGED <<dir, exOps, assigned, ExecuteFrame>>

\* the bytes a stream on a file yields when it is read: those now in the
\* file, or those it had when the file was removed meanwhile
StreamData(d, reader) ==
    IF reader.src \in DOMAIN d THEN d[reader.src].data ELSE reader.data

\* err := s.database.Restore(ctx, reader)
RestoreDatabase(p) ==
    /\ exPc[p] = "restore"
    /\ \E err \in RestoreOutcomes :
         exLocal' = [exLocal EXCEPT ![p] =
                        [AfterStep(exLocal[p], "Restore", err)
                            EXCEPT !.err = err,
                                   !.restored = Append(@, <<exLocal[p].reader.src,
                                                            StreamData(dir, exLocal[p].reader)>>)]]
    /\ exPc' = [exPc EXCEPT ![p] = Following(exPc[p])]
    /\ UNCHANGED <<dir, exRet, exOps, assigned, ExecuteFrame>>

\* the deferred reader.Close(), on the way out of Restore
RestoreClose(p) ==
    /\ exPc[p] = "r_close"
    /\ exLocal' = [exLocal EXCEPT ![p].reader =
                      RestoreDeferredClose(exLocal[p].reader, exLocal[p].err)]
    /\ exPc' = [exPc EXCEPT ![p] = Following(exPc[p])]
    /\ UNCHANGED <<dir, exRet, exOps, assigned, ExecuteFrame>>

\* if err != nil { return err }; return nil
RestoreReturn(p) ==
    /\ exPc[p] = "r_return"
    /\ exRet' = [exRet EXCEPT ![p] =
                    ExecuteRet(TRUE, NilMetadata,
                               IF Failed(exLocal[p].err) THEN exLocal[p].err ELSE NilError,
                               exLocal[p].reader, NilError, exLocal[p], <<>>)]
    /\ exLocal' = [exLocal EXCEPT ![p] = IdleExecute]
    /\ exPc' = [exPc EXCEPT ![p] = "idle"]
    /\ UNCHANGED <<dir, exOps, assigned, ExecuteFrame>>

\* BackupService.List: return s.storage.List(ctx)
ServiceList(p) ==
    /\ exPc[p] = "idle"
    /\ exOps < MaxExecutes
    /\ exOps' = exOps + 1
    /\ \E backups \in List(dir) :
         exRet' = [exRet EXCEPT ![p] =
                      ExecuteRet(TRUE, NilMetadata, NilError, NoReader, NilError,
                                 [IdleExecute EXCEPT !.op = "List", !.call = exOps + 1,
                                                     !.steps = <<"List">>],
                                 backups)]
    /\ UNCHANGED <<dir, exPc, exLocal, assigned, ExecuteFrame>>

\* BackupService.Delete: return s.storage.Delete(ctx, backupID)
ServiceDelete(p) ==
    /\ exPc[p] = "idle"
    /\ exOps < MaxExecutes
    /\ exOps' = exOps + 1
    /\ \E id \in ServiceIDs :
         \E r \in {Delete(dir, DeleteArg(id))} :
            /\ dir' = r.dir
            /\ exRet' = [exRet EXCEPT ![p] =
                            ExecuteRet(TRUE, NilMetadata, r.err, NoReader, NilError,
                                       AfterStep([IdleExecute EXCEPT !.op = "Delete",
                                                                     !.call = exOps + 1,
                                                                     !.backupID = id],
                                                 "Delete", r.err),
                                       <<>>)]
    /\ UNCHANGED <<exPc, exLocal, assigned, ExecuteFrame>>

\* time passes while the service runs
ClockTick ==
    /\ now < MaxTime
    /\ now' = now + 1
    /\ UNCHANGED <<dir, diskRet, diskOps, uploaded, uploads, uploadErrs, uploadFault, uploadArg, deleted,
                   registryVars, backupVars, defaultVars, configVars, lockVars, s3Vars>>

NextBackup ==
    \/ ClockTick
    \/ \E p \in Procs :
        \/ ExecuteCall(p)
        \/ ExecuteGetMetadata(p)
        \/ ExecuteBackup(p)
        \/ ExecuteGenerateID(p)
        \/ ExecuteStamp(p)
        \/ ExecuteUpload(p)
        \/ ExecuteClose(p)
        \/ ExecuteReturn(p)
        \/ RestoreCall(p)
        \/ RestoreDownload(p)
        \/ RestoreDatabase(p)
        \/ RestoreClose(p)
        \/ RestoreReturn(p)
        \/ ServiceList(p)
        \/ ServiceDelete(p)

SpecBackup == InitBackup /\ [][NextBackup]_vars

\* the same service when the Go scheduler runs every goroutine that can take a
\* step: a call that has started goes on to its return
SpecBackupFair == SpecBackup /\ WF_vars(NextBackup)

\* ------------------------------------------------------------------------
\* DefaultRegistry, the package-level functions and the providers' init()
\* ------------------------------------------------------------------------

\* calls on the registries over a run, the init() functions apart
MaxDefaultOps == 3

\* the provider packages
Packages == {"disk", "s3", "postgres"}

\* a provider of every kind
AllStorage(pkg) == "storage"

\* init() of a provider package calls core.RegisterStorage (disk, s3) or
\* core.RegisterDatabase (postgres)
ProviderKind(pkg) == IF pkg = "postgres" THEN "database" ELSE "storage"

\* the name init() registers
ProviderName(pkg) == pkg

\* the constructor init() registers: a function that returns New(config)
ProviderFactory(pkg) == pkg \o ".New"

\* the names callers use and the constructors they register
DefaultNames == {"test-global", "disk"}
CallerFactories == {"factoryA"}

\* what a constructor may return: a provider's New may also fail
ConstructorOutcomes(f, config) ==
    {FactoryResult(f, config)}
    \cup IF f \in {ProviderFactory(pkg) : pkg \in Packages}
         THEN {[provider |-> NilProvider,
                err |-> NewError("failed to create backup directory")]}
         ELSE {}

\* r.databases or r.storages of the registry r
MapOf(r, kind) == IF kind = "database" THEN r.databases ELSE r.storages

\* a registration that enters the name in both mappings
RegisterBothKinds(r, kind, name, factory) ==
    [databases |-> MapStore(r.databases, name, factory),
     storages |-> MapStore(r.storages, name, factory)]

\* (r *Registry) RegisterDatabase / RegisterStorage
RegistryRegister(r, kind, name, factory) ==
    IF kind = "database"
    THEN [r EXCEPT !.databases = MapStore(@, name, factory)]
    ELSE [r EXCEPT !.storages = MapStore(@, name, factory)]

\* (r *Registry) GetDatabase / GetStorage: what the call may return
RegistryGet(r, kind, name, config) ==
    IF ~MapLookup(MapOf(r, kind), name).exists
    THEN {[provider |-> NilProvider, err |-> NotRegisteredError(kind, name)]}
    ELSE {GetResult(name, res) :
            res \in ConstructorOutcomes(MapLookup(MapOf(r, kind), name).factory, config)}

\* (r *Registry) ListDatabases / ListStorages: what the call may return
RegistryList(r, kind) == RangeOrders(DOMAIN MapOf(r, kind))

\* what a call returned: via is "init", "package" or "instance"
DefaultRet(via, op, kind, name, factory, provider, err, names) ==
    [via |-> via, op |-> op, kind |-> kind, name |-> name, factory |-> factory,
     provider |-> provider, err |-> err, names |-> names]

DefaultFrame == <<registryVars, diskVars, backupVars, configVars, lockVars, s3Vars>>

\* the state when core has been initialised and no provider package yet
InitDefault ==
    /\ dir = EmptyDir
    /\ now = 0
    /\ diskRet = NoDiskRet
    /\ diskOps = 0
    /\ uploaded = {}
    /\ uploads = 0
    /\ uploadErrs = 0
    /\ uploadFault = "none"
    /\ uploadArg = ZeroMetadata
    /\ deleted = {}
    /\ exPc = [p \in Procs |-> "idle"]
    /\ exLocal = [p \in Procs |-> IdleExecute]
    /\ exRet = [p \in Procs |-> NoExecuteRet]
    /\ exOps = 0
    /\ assigned = {}
    /\ DefaultRegistry = NewRegistry
    /\ otherRegistry = NewRegistry
    /\ initialised = {}
    /\ defRet = NoDefaultRet
    /\ defOps = 0
    /\ pkgRegistered = {}
    /\ appConfig = DefaultConfig
    /\ validateRet = NotValidated
    /\ configOps = 0
    /\ lockMu = [w |-> NoProc, held |-> FALSE, readers |-> 0]
    /\ lockPc = [g \in Goroutines |-> "idle"]
    /\ lockOps = 0
    /\ inConstructor = {}
    /\ objects = EmptyBucket
    /\ databases = EmptyMap
    /\ storages = EmptyMap
    /\ mu = [w |-> NoProc, held |-> FALSE, readers |-> 0]
    /\ writing = {}
    /\ regPc = [p \in Procs |-> "idle"]
    /\ regCall = [p \in Procs |-> IdleCall]
    /\ regLocal = [p \in Procs |-> IdleLocal]
    /\ regRet = [p \in Procs |-> NoRet]
    /\ calls = [f \in Factories |-> 0]
    /\ regOps = 0
    /\ lastRegistered = [k \in Kinds |-> [n \in Names |-> NilFactory]]
    /\ regCount = [k \in Kinds |-> [n \in Names |-> 0]]
    /\ invoked = [p \in Procs |-> <<>>]
    /\ legit = [p \in Procs |-> {}]

\* init() of a provider package runs, once
ProviderInit(pkg) ==
    /\ pkg \notin initialised
    /\ initialised' = initialised \cup {pkg}
    /\ DefaultRegistry' = RegistryRegister(DefaultRegistry, ProviderKind(pkg),
                                           ProviderName(pkg), ProviderFactory(pkg))
    /\ pkgRegistered' = pkgRegistered \cup {<<ProviderKind(pkg), ProviderName(pkg)>>}
    /\ defRet' = DefaultRet("init", "Register", ProviderKind(pkg), ProviderName(pkg),
                            ProviderFactory(pkg), NilProvider, NilError, <<>>)
    /\ UNCHANGED <<otherRegistry, defOps, DefaultFrame>>

\* core.RegisterDatabase / core.RegisterStorage: DefaultRegistry.RegisterDatabase(name, factory)
PackageRegister(kind, name, factory) ==
    /\ defOps < MaxDefaultOps
    /\ defOps' = defOps + 1
    /\ DefaultRegistry' = RegistryRegister(DefaultRegistry, kind, name, factory)
    /\ pkgRegistered' = pkgRegistered \cup {<<kind, name>>}
    /\ defRet' = DefaultRet("package", "Register", kind, name, factory,
                            NilProvider, NilError, <<>>)
    /\ UNCHANGED <<otherRegistry, initialised, DefaultFrame>>

\* core.GetDatabase / core.GetStorage: return DefaultRegistry.GetDatabase(name, config)
PackageGet(kind, name, config) ==
    /\ defOps < MaxDefaultOps
    /\ defOps' = defOps + 1
    /\ \E res \in RegistryGet(DefaultRegistry, kind, name, config) :
         defRet' = DefaultRet("package", "Get", kind, name, NilFactory,
                              res.provider, res.err, <<>>)
    /\ UNCHANGED <<DefaultRegistry, otherRegistry, initialised, pkgRegistered, DefaultFrame>>

\* core.ListDatabases / core.ListStorages: return DefaultRegistry.ListDatabases()
PackageList(kind) ==
    /\ defOps < MaxDefaultOps
    /\ defOps' = defOps + 1
    /\ \E names \in RegistryList(DefaultRegistry, kind) :
         defRet' = DefaultRet("package", "List", kind, "", NilFactory,
                              NilProvider, NilError, names)
    /\ UNCHANGED <<DefaultRegistry, otherRegistry, initialised, pkgRegistered, DefaultFrame>>

\* registry.RegisterDatabase / RegisterStorage on the registry of its own
InstanceRegister(kind, name, factory) ==
    /\ defOps < MaxDefaultOps
    /\ defOps' = defOps + 1
    /\ otherRegistry' = RegistryRegister(otherRegistry, kind, name, factory)
    /\ defRet' = DefaultRet("instance", "Register", kind, name, factory,
                            NilProvider, NilError, <<>>)
    /\ UNCHANGED <<DefaultRegistry, initialised, pkgRegistered, DefaultFrame>>

\* registry.GetDatabase / GetStorage on the registry of its own
InstanceGet(kind, name, config) ==
    /\ defOps < MaxDefaultOps
    /\ defOps' = defOps + 1
    /\ \E res \in RegistryGet(otherRegistry, kind, name, config) :
         defRet' = DefaultRet("instance", "Get", kind, name, NilFactory,
                              res.provider, res.err, <<>>)
    /\ UNCHANGED <<DefaultRegistry, otherRegistry, initialised, pkgRegistered, DefaultFrame>>

\* registry.ListDatabases / ListStorages on the registry of its own
InstanceList(kind) ==
    /\ defOps < MaxDefaultOps
    /\ defOps' = defOps + 1
    /\ \E names \in RegistryList(otherRegistry, kind) :
         defRet' = DefaultRet("instance", "List", kind, "", NilFactory,
                              NilProvider, NilError, names)
    /\ UNCHANGED <<DefaultRegistry, otherRegistry, initialised, pkgRegistered, DefaultFrame>>

NextDefault ==
    \/ \E pkg \in Packages : ProviderInit(pkg)
    \/ \E kind \in Kinds, name \in DefaultNames, factory \in CallerFactories :
        \/ PackageRegister(kind, name, factory)
        \/ InstanceRegister(kind, name, factory)
    \/ \E kind \in Kinds, name \in DefaultNames \cup Packages, config \in Configs :
        \/ PackageGet(kind, name, config)
        \/ InstanceGet(kind, name, config)
    \/ \E kind \in Kinds :
        \/ PackageList(kind)
        \/ InstanceList(kind)

SpecDefault == InitDefault /\ [][NextDefault]_vars

\* ------------------------------------------------------------------------
\* Config (core/config.go)
\* ------------------------------------------------------------------------

\* changes to the Config over a run
MaxConfigOps == 2

\* the values of the fields
Hosts == {"", "localhost"}
Usernames == {"", "postgres"}
StorageTypes == {"", "s3", "disk", "azure"}
Buckets == {"", "my-bucket"}
Paths == {"", "./backups"}

AllConfigs ==
    {Config(host, username, type, bucket, path) :
        host \in Hosts, username \in Usernames, type \in StorageTypes,
        bucket \in Buckets, path \in Paths}

\* a Validate that tests the username before the host
ValidateUsernameFirst(c) ==
    IF c.Database.Username = ""
    THEN NewError("database username is required")
    ELSE IF c.Database.Host = ""
    THEN NewError("database host is required")
    ELSE IF c.Storage.Type = "s3" /\ c.Storage.Bucket = ""
    THEN NewError("storage bucket is required for S3 storage")
    ELSE NilError

\* the switch on c.Storage.Type
ValidateStorage(c) ==
    CASE c.Storage.Type = "s3" ->
            IF c.Storage.Bucket = ""
            THEN NewError("storage bucket is required for S3 storage")
            ELSE NilError
      [] c.Storage.Type = "disk" -> NilError
      [] OTHER -> NilError

\* (c *Config) Validate
Validate(c) ==
    IF c.Database.Host = ""
    THEN NewError("database host is required")
    ELSE IF c.Database.Username = ""
    THEN NewError("database username is required")
    ELSE ValidateStorage(c)

ConfigFrame == <<registryVars, diskVars, backupVars, defaultVars, lockVars, s3Vars>>

\* a Config as a caller may have filled it in
InitConfig ==
    /\ appConfig \in AllConfigs
    /\ validateRet = NotValidated
    /\ configOps = 0
    /\ lockMu = [w |-> NoProc, held |-> FALSE, readers |-> 0]
    /\ lockPc = [g \in Goroutines |-> "idle"]
    /\ lockOps = 0
    /\ inConstructor = {}
    /\ objects = EmptyBucket
    /\ dir = EmptyDir
    /\ now = 0
    /\ diskRet = NoDiskRet
    /\ diskOps = 0
    /\ uploaded = {}
    /\ uploads = 0
    /\ uploadErrs = 0
    /\ uploadFault = "none"
    /\ uploadArg = ZeroMetadata
    /\ deleted = {}
    /\ exPc = [p \in Procs |-> "idle"]
    /\ exLocal = [p \in Procs |-> IdleExecute]
    /\ exRet = [p \in Procs |-> NoExecuteRet]
    /\ exOps = 0
    /\ assigned = {}
    /\ DefaultRegistry = NewRegistry
    /\ otherRegistry = NewRegistry
    /\ initialised = {}
    /\ defRet = NoDefaultRet
    /\ defOps = 0
    /\ pkgRegistered = {}
    /\ databases = EmptyMap
    /\ storages = EmptyMap
    /\ mu = [w |-> NoProc, held |-> FALSE, readers |-> 0]
    /\ writing = {}
    /\ regPc = [p \in Procs |-> "idle"]
    /\ regCall = [p \in Procs |-> IdleCall]
    /\ regLocal = [p \in Procs |-> IdleLocal]
    /\ regRet = [p \in Procs |-> NoRet]
    /\ calls = [f \in Factories |-> 0]
    /\ regOps = 0
    /\ lastRegistered = [k \in Kinds |-> [n \in Names |-> NilFactory]]
    /\ regCount = [k \in Kinds |-> [n \in Names |-> 0]]
    /\ invoked = [p \in Procs |-> <<>>]
    /\ legit = [p \in Procs |-> {}]

\* the caller fills the Config in anew
SetConfig ==
    /\ configOps < MaxConfigOps
    /\ configOps' = configOps + 1
    /\ \E c \in AllConfigs : appConfig' = c
    /\ validateRet' = NotValidated
    /\ UNCHANGED ConfigFrame

\* err := config.Validate()
ValidateCall ==
    /\ validateRet' = [called |-> TRUE, err |-> Validate(appConfig)]
    /\ UNCHANGED <<appConfig, configOps, ConfigFrame>>

NextConfig ==
    \/ SetConfig
    \/ ValidateCall

SpecConfig == InitConfig /\ [][NextConfig]_vars

\* ------------------------------------------------------------------------
\* The lock of a Registry under three goroutines (core/registry.go, r.mu)
\* ------------------------------------------------------------------------

\* calls on the Registry over a run
MaxLockOps == 3

LockFrame == <<registryVars, diskVars, backupVars, defaultVars, configVars, s3Vars>>

\* a Registry nobody has called yet
InitLock ==
    /\ dir = EmptyDir
    /\ now = 0
    /\ diskRet = NoDiskRet
    /\ diskOps = 0
    /\ uploaded = {}
    /\ uploads = 0
    /\ uploadErrs = 0
    /\ uploadFault = "none"
    /\ uploadArg = ZeroMetadata
    /\ deleted = {}
    /\ exPc = [p \in Procs |-> "idle"]
    /\ exLocal = [p \in Procs |-> IdleExecute]
    /\ exRet = [p \in Procs |-> NoExecuteRet]
    /\ exOps = 0
    /\ assigned = {}
    /\ DefaultRegistry = NewRegistry
    /\ otherRegistry = NewRegistry
    /\ initialised = {}
    /\ defRet = NoDefaultRet
    /\ defOps = 0
    /\ pkgRegistered = {}
    /\ appConfig = DefaultConfig
    /\ validateRet = NotValidated
    /\ configOps = 0
    /\ lockMu = [w |-> NoProc, held |-> FALSE, readers |-> 0]
    /\ lockPc = [g \in Goroutines |-> "idle"]
    /\ lockOps = 0
    /\ inConstructor = {}
    /\ objects = EmptyBucket
    /\ databases = EmptyMap
    /\ storages = EmptyMap
    /\ mu = [w |-> NoProc, held |-> FALSE, readers |-> 0]
    /\ writing = {}
    /\ regPc = [p \in Procs |-> "idle"]
    /\ regCall = [p \in Procs |-> IdleCall]
    /\ regLocal = [p \in Procs |-> IdleLocal]
    /\ regRet = [p \in Procs |-> NoRet]
    /\ calls = [f \in Factories |-> 0]
    /\ regOps = 0
    /\ lastRegistered = [k \in Kinds |-> [n \in Names |-> NilFactory]]
    /\ regCount = [k \in Kinds |-> [n \in Names |-> 0]]
    /\ invoked = [p \in Procs |-> <<>>]
    /\ legit = [p \in Procs |-> {}]

\* where a call goes when it returns: back into the constructor that made
\* it, or to its caller
ReturnTo(g) == IF g \in inConstructor THEN "construct" ELSE "idle"

\* a goroutine calls GetDatabase, GetStorage, ListDatabases or ListStorages
ReadCall(g) ==
    /\ lockPc[g] = "idle"
    /\ lockOps < MaxLockOps
    /\ lockOps' = lockOps + 1
    /\ lockPc' = [lockPc EXCEPT ![g] = "rlock"]
    /\ UNCHANGED <<lockMu, inConstructor, LockFrame>>

\* r.mu.RLock()
ReadRLock(g) ==
    /\ lockPc[g] = "rlock"
    /\ CanRLock(lockMu)
    /\ lockMu' = [lockMu EXCEPT !.readers = @ + 1]
    /\ lockPc' = [lockPc EXCEPT ![g] = "read"]
    /\ UNCHANGED <<lockOps, inConstructor, LockFrame>>

\* r.mu.RUnlock()
RUnlock(m) == [m EXCEPT !.readers = @ - 1]

\* a GetDatabase whose RUnlock is deferred to its return
RUnlockDeferred(m, at) == IF at = "return" THEN RUnlock(m) ELSE m

\* the lock as GetDatabase / GetStorage leave it after the lookup and at
\* their return: RUnlock is the statement after the lookup
RUnlockAt(m, at) == IF at = "lookup" THEN RUnlock(m) ELSE m

\* the lookup or the range loop is done: r.mu.RUnlock(), and the call
\* returns (a List, a name not registered)
ReadRUnlock(g) ==
    /\ lockPc[g] = "read"
    /\ lockMu' = RUnlock(lockMu)
    /\ lockPc' = [lockPc EXCEPT ![g] = ReturnTo(g)]
    /\ UNCHANGED <<lockOps, inConstructor, LockFrame>>

\* the lookup of GetDatabase / GetStorage found a factory: r.mu.RUnlock(),
\* then return factory(config), the constructor runs
ReadConstruct(g) ==
    /\ lockPc[g] = "read"
    /\ g \notin inConstructor
    /\ lockMu' = RUnlockAt(lockMu, "lookup")
    /\ lockPc' = [lockPc EXCEPT ![g] = "construct"]
    /\ inConstructor' = inConstructor \cup {g}
    /\ UNCHANGED <<lockOps, LockFrame>>

\* the constructor calls RegisterDatabase or RegisterStorage on the registry
ConstructRegister(g) ==
    /\ lockPc[g] = "construct"
    /\ lockOps < MaxLockOps
    /\ lockOps' = lockOps + 1
    /\ lockPc' = [lockPc EXCEPT ![g] = "lock"]
    /\ UNCHANGED <<lockMu, inConstructor, LockFrame>>

\* the constructor calls a Get or a List of the registry
ConstructResolve(g) ==
    /\ lockPc[g] = "construct"
    /\ lockOps < MaxLockOps
    /\ lockOps' = lockOps + 1
    /\ lockPc' = [lockPc EXCEPT ![g] = "rlock"]
    /\ UNCHANGED <<lockMu, inConstructor, LockFrame>>

\* the constructor returns, and GetDatabase / GetStorage with it
ConstructReturn(g) ==
    /\ lockPc[g] = "construct"
    /\ lockPc' = [lockPc EXCEPT ![g] = "idle"]
    /\ inConstructor' = inConstructor \ {g}
    /\ lockMu' = RUnlockAt(lockMu, "return")
    /\ UNCHANGED <<lockOps, LockFrame>>

\* a goroutine calls RegisterDatabase or RegisterStorage
WriteCall(g) ==
    /\ lockPc[g] = "idle"
    /\ lockOps < MaxLockOps
    /\ lockOps' = lockOps + 1
    /\ lockPc' = [lockPc EXCEPT ![g] = "lock"]
    /\ UNCHANGED <<lockMu, inConstructor, LockFrame>>

\* r.mu.Lock(), the writer announces itself
WriteLock(g) ==
    /\ lockPc[g] = "lock"
    /\ CanLock(lockMu)
    /\ lockMu' = [lockMu EXCEPT !.w = g]
    /\ lockPc' = [lockPc EXCEPT ![g] = "wait"]
    /\ UNCHANGED <<lockOps, inConstructor, LockFrame>>

\* r.mu.Lock() returns once the readers left
WriteAcquire(g) ==
    /\ lockPc[g] = "wait"
    /\ CanAcquire(lockMu, g)
    /\ lockMu' = [lockMu EXCEPT !.held = TRUE]
    /\ lockPc' = [lockPc EXCEPT ![g] = "write"]
    /\ UNCHANGED <<lockOps, inConstructor, LockFrame>>

\* the map is assigned: the deferred r.mu.Unlock()
WriteUnlock(g) ==
    /\ lockPc[g] = "write"
    /\ lockMu' = [lockMu EXCEPT !.w = NoProc, !.held = FALSE]
    /\ lockPc' = [lockPc EXCEPT ![g] = ReturnTo(g)]
    /\ UNCHANGED <<lockOps, inConstructor, LockFrame>>

NextLock ==
    \E g \in Goroutines :
        \/ ReadCall(g)
        \/ ReadRLock(g)
        \/ ReadRUnlock(g)
        \/ ReadConstruct(g)
        \/ ConstructRegister(g)
        \/ ConstructResolve(g)
        \/ ConstructReturn(g)
        \/ WriteCall(g)
        \/ WriteLock(g)
        \/ WriteAcquire(g)
        \/ WriteUnlock(g)

SpecLock == InitLock /\ [][NextLock]_vars

\* ------------------------------------------------------------------------
\* Registry: properties
\* ------------------------------------------------------------------------

\* goroutine p takes a step
StepOf(p) == regPc'[p] # regPc[p]

\* what a lookup of name finds when its latest registration is the entry
LatestEntry(kind, name) ==
    IF regCount[kind][name] > 0
    THEN [factory |-> lastRegistered[kind][name], exists |-> TRUE]
    ELSE [factory |-> NilFactory, exists |-> FALSE]

\* C1: the lookup of GetDatabase/GetStorage fetches the constructor of the
\* most recent registration of the name (never an earlier one), and the
\* constructor the call then invokes is the one it fetched.
C1_LastRegistrationWins ==
    [][\A p \in Procs :
        /\ (regPc[p] = "get_lookup" /\ StepOf(p)) =>
              /\ regLocal'[p].factory = LatestEntry(regCall[p].kind, regCall[p].name).factory
              /\ regLocal'[p].exists = LatestEntry(regCall[p].kind, regCall[p].name).exists
        /\ (regPc[p] = "get_check" /\ StepOf(p) /\ regLocal[p].exists) =>
              invoked'[p] = << <<regLocal[p].factory, regCall[p].config>> >>
      ]_vars

\* C1 witness: a name registered twice, then resolved: the constructor
\* invoked is the one of the second registration.
C1_Witness ==
    \E p \in Procs :
        /\ regCall[p].op = "Got"
        /\ regCount[regCall[p].kind][regCall[p].name] >= 2
        /\ Len(invoked[p]) = 1
        /\ invoked[p][1][1] = lastRegistered[regCall[p].kind][regCall[p].name]
        /\ regPc = [q \in Procs |-> "idle"]

\* C2: a GetDatabase/GetStorage whose name is not in the mapping finds no
\* entry, returns a nil provider and an error containing "not registered",
\* and no step of the call invokes a constructor: every counter is unchanged.
C2_NotRegisteredInvokesNothing ==
    [][\A p \in Procs :
        /\ (/\ regPc[p] = "get_lookup" /\ StepOf(p)
            /\ regCall[p].name \notin DOMAIN RegistryMap(regCall[p].kind)) =>
              ~regLocal'[p].exists
        /\ (regPc[p] = "get_check" /\ StepOf(p) /\ ~regLocal[p].exists) =>
              /\ regCall'[p].op = "Got"
              /\ regRet'[p].provider = NilProvider
              /\ regRet'[p].err # NilError
              /\ Contains(ErrorMsg(regRet'[p].err), "not registered")
              /\ invoked'[p] = <<>>
        /\ (/\ regCall[p].op = "Get" /\ StepOf(p)
            /\ ~(regPc[p] = "get_check" /\ regLocal[p].exists)) =>
              calls' = calls
      ]_vars

\* C2 witness: a resolve of an unregistered name returned not-registered
\* while a constructor is registered under the other name, never invoked.
C2_Witness ==
    \E p \in Procs :
        /\ regCall[p].op = "Got"
        /\ regCall[p].name \notin DOMAIN RegistryMap(regCall[p].kind)
        /\ DOMAIN RegistryMap(regCall[p].kind) # {}
        /\ regRet[p].provider = NilProvider
        /\ regRet[p].err # NilError
        /\ Contains(ErrorMsg(regRet[p].err), "not registered")
        /\ \A f \in Factories : calls[f] = 0

\* C3: a GetDatabase/GetStorage on a registered name invokes the constructor
\* once with the caller's config; on success it returns the instance and no
\* error, on failure an error that has the constructor's error as cause and
\* names the backend.
C3_ConstructorErrorWrappedWithName ==
    \A p \in Procs :
        (regCall[p].op = "Got" /\ invoked[p] # <<>>) =>
            LET f == invoked[p][1][1]
                res == FactoryResult(f, regCall[p].config) IN
            /\ Len(invoked[p]) = 1
            /\ invoked[p][1][2] = regCall[p].config
            /\ res.err = NilError =>
                 /\ regRet[p].provider = res.provider
                 /\ regRet[p].err = NilError
            /\ res.err # NilError =>
                 /\ regRet[p].provider = NilProvider
                 /\ regRet[p].err # NilError
                 /\ Tail(regRet[p].err) = res.err
                 /\ Contains(ErrorMsg(regRet[p].err), regCall[p].name)

\* C4: the entry a resolve fetches is one the name really had between the
\* start of the call and the lookup: the entry before a concurrent
\* registration (or none) or the newly registered constructor, never another.
C4_ResolveSeesOldOrNew ==
    \A p \in Procs :
        regPc[p] = "get_runlock" =>
            [factory |-> regLocal[p].factory, exists |-> regLocal[p].exists] \in legit[p]

\* C4 witness: a registration of the name completed while the resolve was
\* under way, and the resolve fetched an entry.
C4_Witness ==
    \E p \in Procs :
        /\ regPc[p] = "get_runlock"
        /\ Cardinality(legit[p]) = 2
        /\ regLocal[p].exists

\* the names registered so far in a mapping
RegisteredNames(kind) == {n \in Names : regCount[kind][n] > 0}

\* C17: the names ListDatabases/ListStorages collects are exactly the names
\* registered so far in that mapping, each once (as many as there are distinct
\* names, none on a new registry, one for a name registered twice), and the
\* call returns the names it collected.
C17_ListsEachNameOnce ==
    [][\A p \in Procs :
        /\ (regPc[p] = "list_range" /\ StepOf(p)) =>
              /\ Len(regLocal'[p].names) = Cardinality(RegisteredNames(regCall[p].kind))
              /\ {regLocal'[p].names[i] : i \in DOMAIN regLocal'[p].names}
                    = RegisteredNames(regCall[p].kind)
        /\ (regPc[p] = "list_runlock" /\ StepOf(p)) =>
              /\ regRet'[p].names = regLocal[p].names
              /\ regRet'[p].err = NilError
      ]_vars

\* C17 witness: a name registered twice is listed once.
C17_Witness ==
    \E p \in Procs :
        /\ regCall[p].op = "Listed"
        /\ Len(regRet[p].names) = 1
        /\ regCount[regCall[p].kind][regRet[p].names[1]] = 2

\* the goroutines between RLock and RUnlock, and those between Lock and Unlock
InReadSection == {p \in Procs : regPc[p] \in {"get_lookup", "get_runlock",
                                               "list_range", "list_runlock"}}
InWriteSection == {p \in Procs : regPc[p] \in {"reg_write", "reg_store", "reg_unlock"}}

\* C23: at most one registration is between Lock and Unlock, and while one
\* is, it holds the lock and no lookup or list is between RLock and RUnlock;
\* a mapping is assigned only by the registration that holds the lock; the
\* readers the lock counts are the lookups and lists inside the read
\* section; a goroutine outside both sections holds nothing of the lock, so
\* with every call returned the lock is free.
C23_WriterExcludesAll ==
    /\ Cardinality(InWriteSection) <= 1
    /\ InWriteSection # {} =>
          /\ InReadSection = {}
          /\ mu.held /\ mu.w \in InWriteSection
    /\ \A w \in writing : w.proc \in InWriteSection /\ mu.held /\ mu.w = w.proc
    /\ mu.readers = Cardinality(InReadSection)
    /\ mu.held => mu.w \in InWriteSection
    /\ \A p \in Procs : regPc[p] \in {"idle", "get_check", "reg_lock",
                                       "get_rlock", "list_rlock"} => mu.w # p
    /\ (\A p \in Procs : regPc[p] = "idle") =>
          mu = [w |-> NoProc, held |-> FALSE, readers |-> 0]

\* C23 witness: a registration is assigning a mapping while a lookup waits at
\* RLock, and an earlier call of that goroutine has returned.
C23_Witness ==
    \E p, q \in Procs :
        /\ regPc[p] = "reg_store" /\ writing # {}
        /\ regPc[q] \in {"get_rlock", "list_rlock"}
        /\ regOps = 3

\* C24: no lookup or list waits at RLock while another lookup or list is
\* inside the read section.
C24_NoReadWaitsBehindRead ==
    \A g \in Goroutines :
        ~(/\ lockPc[g] = "rlock"
          /\ ~CanRLock(lockMu)
          /\ \E h \in Goroutines \ {g} : lockPc[h] = "read")

\* ------------------------------------------------------------------------
\* Disk storage provider: properties
\* ------------------------------------------------------------------------

\* the caller's last call was a successful Upload
UploadSucceeded == diskRet.op = "Upload" /\ diskRet.err = NilError

\* C7: a Download of the ID of the record just uploaded, made right after
\* the successful Upload, succeeds and yields the uploaded bytes.
C7_DownloadAfterUpload ==
    [][(/\ UploadSucceeded
        /\ diskRet'.op = "Download"
        /\ diskRet'.id = diskRet.metadata.ID) =>
            /\ diskRet'.err = NilError
            /\ diskRet'.data = diskRet.data
      ]_vars

\* C8: after successful Uploads only, every record List returned carries as
\* ID the name of a file List read, so that Download of the ID succeeds with
\* the file's bytes and Delete of the ID removes it.
C8_ListedIDIsFilename ==
    (diskRet.op = "List" /\ uploadErrs = 0 /\ uploads > 0) =>
        \A i \in DOMAIN diskRet.list :
            /\ diskRet.list[i].ID \in ListedNames(dir)
            /\ Download(dir, diskRet.list[i].ID).err = NilError
            /\ Delete(dir, diskRet.list[i].ID).err = NilError
            /\ diskRet.list[i].ID \notin DOMAIN Delete(dir, diskRet.list[i].ID).dir

\* C9: a successful Upload leaves in the record the length of the payload as
\* Size and the MD5 hex digest of the payload as Checksum (for the 17 bytes
\* "test backup data!": 17 and da5a8c40..., for no bytes: 0 and d41d8cd9...),
\* and any two Uploads of the same payload left the same Checksum.
C9_SizeAndChecksum ==
    /\ UploadSucceeded =>
          /\ diskRet.metadata.Size = Len(diskRet.data)
          /\ diskRet.metadata.Checksum = Md5Hex[diskRet.data]
          /\ <<diskRet.data, diskRet.metadata.Size, diskRet.metadata.Checksum>> \in uploaded
    /\ \A u, v \in uploaded : u[1] = v[1] => u[3] = v[3]
    /\ \A u \in uploaded :
          /\ u[1] = "test backup data!" =>
                u[2] = 17 /\ u[3] = "da5a8c4038230c0ee4a7dcf5a38167c8"
          /\ u[1] = "" =>
                u[2] = 0 /\ u[3] = "d41d8cd98f00b204e9800998ecf8427e"

\* C9 witness: the 17 bytes uploaded twice, both Uploads successful, and
\* the record carries 17 and their digest.
C9_Witness ==
    /\ UploadSucceeded
    /\ diskRet.data = "test backup data!"
    /\ uploads = 2
    /\ uploaded = {<<"test backup data!", 17, "da5a8c4038230c0ee4a7dcf5a38167c8">>}
    /\ diskRet.metadata.Size = 17

\* the directory never held a file other than those Upload wrote
OnlyUploads == ForeignNames \cap (DOMAIN dir \cup deleted) = {}

\* C10: on a directory that only Upload wrote to, with every Upload so far successful, a List returns no error and as
\* many records as there were Uploads while nothing was deleted (none on the
\* empty directory), and one fewer, none with the deleted ID, after one Delete.
C10_ListCountsUploads ==
    (diskRet.op = "List" /\ uploadErrs = 0 /\ OnlyUploads) =>
        /\ diskRet.err = NilError
        /\ deleted = {} => Len(diskRet.list) = uploads
        /\ Cardinality(deleted) = 1 =>
              /\ Len(diskRet.list) = uploads - 1
              /\ \A i \in DOMAIN diskRet.list : diskRet.list[i].ID \notin deleted

\* C16: a Download or Delete of an id that names no backup file of the
\* directory returns an error that says "not found" and names the id, and
\* leaves every file of the directory, sidecars included, as it was.
C16_NotFoundLeavesDirectory ==
    [][(/\ diskOps' = diskOps + 1
        /\ diskRet'.op \in {"Download", "Delete"}
        /\ diskRet'.id \notin ListedNames(dir)) =>
            /\ diskRet'.err # NilError
            /\ Contains(ErrorMsg(diskRet'.err), "not found")
            /\ Contains(ErrorMsg(diskRet'.err), diskRet'.id)
            /\ dir' = dir
      ]_vars

\* C19: the records a List returned are those of the backup files of the
\* directory, one each, and each has as Size the length of its file and, when
\* it has a Checksum, the MD5 hex digest of the bytes now in its file.
C19_ListedSizeAndChecksumOfStoredBytes ==
    diskRet.op = "List" =>
        \E o \in Orders(ListedNames(dir)) :
            /\ Len(diskRet.list) = Len(o)
            /\ \A i \in DOMAIN o :
                  /\ diskRet.list[i] = ListRecord(dir, o[i])
                  /\ diskRet.list[i].Size = Len(dir[o[i]].data)
                  /\ diskRet.list[i].Checksum # "" =>
                        diskRet.list[i].Checksum = Md5Hex[dir[o[i]].data]

\* the names of the primary-object naming convention,
\* {DatabaseName}_{DatabaseType}_{yyyyMMdd-HHmmss}.dump
Conforming ==
    {getBackupFilename(BackupMetadata("", name, type, t, 0, "", "nil")) :
        name \in DbNames, type \in DbTypes, t \in Times}

\* C26: the records a List returned are those of the regular files of the
\* directory whose names follow the primary-object naming convention, one
\* each and none for any other entry, and no record is followed by one with a
\* later Timestamp.
C26_ListsConformingFilesSorted ==
    diskRet.op = "List" =>
        /\ \E o \in Orders({n \in DOMAIN dir : ~dir[n].isDir /\ n \in Conforming}) :
              /\ Len(diskRet.list) = Len(o)
              /\ \A i \in DOMAIN o : diskRet.list[i] = ListRecord(dir, o[i])
        /\ \A i, j \in DOMAIN diskRet.list :
              i < j => diskRet.list[j].Timestamp <= diskRet.list[i].Timestamp

WithoutSidecar(d) ==
    {n \in ListedNames(d) : (n \o ".meta") \notin DOMAIN d \/ d[n \o ".meta"].isDir}

\* C28: an Upload whose sidecar write failed after the primary write returns
\* no error and leaves the primary file with the uploaded bytes; and a List
\* returns, for every listed file without a readable sidecar, a record whose
\* ID is the file name, Timestamp the modification time and Size the file size.
C28_SidecarIsOptional ==
    /\ (diskRet.op = "Upload" /\ uploadFault = "meta") =>
            /\ diskRet.err = NilError
            /\ getBackupFilename(diskRet.metadata) \in DOMAIN dir
            /\ dir[getBackupFilename(diskRet.metadata)].data = diskRet.data
    /\ diskRet.op = "List" =>
            \A n \in WithoutSidecar(dir) :
                \E i \in DOMAIN diskRet.list :
                    /\ diskRet.list[i].ID = n
                    /\ diskRet.list[i].Timestamp = dir[n].modTime
                    /\ diskRet.list[i].Size = Len(dir[n].data)

\* C28 witness: a List has returned the record of a backup whose Upload
\* could not write the sidecar.
C28_Witness ==
    /\ diskRet.op = "List" /\ uploadFault = "meta" /\ uploads = 1
    /\ \E n \in WithoutSidecar(dir) :
          /\ n \in Conforming
          /\ \E i \in DOMAIN diskRet.list : diskRet.list[i].ID = n

\* t at the resolution of the .meta file's Timestamp line: whole seconds
WholeSeconds(t) == Seconds(t) * TicksPerSecond

\* C29: a List that follows an Upload which wrote the sidecar returns, for
\* the uploaded file, a record with the DatabaseName, DatabaseType and
\* Checksum of the record the Upload left and with its Timestamp cut to
\* whole seconds.
C29_ListedRecordFromSidecar ==
    [][(/\ UploadSucceeded /\ uploadFault = "none"
        /\ diskRet'.op = "List") =>
            \E i \in DOMAIN diskRet'.list :
                /\ diskRet'.list[i] = ListRecord(dir, getBackupFilename(diskRet.metadata))
                /\ diskRet'.list[i].DatabaseName = diskRet.metadata.DatabaseName
                /\ diskRet'.list[i].DatabaseType = diskRet.metadata.DatabaseType
                /\ diskRet'.list[i].Checksum = diskRet.metadata.Checksum
                /\ diskRet'.list[i].Timestamp = WholeSeconds(diskRet.metadata.Timestamp)
      ]_vars

\* C29 witness: a List has returned the record of a backup uploaded, with
\* its sidecar, in the middle of a second.
C29_Witness ==
    /\ diskRet.op = "List" /\ uploadFault = "none" /\ uploads = 1 /\ uploadErrs = 0
    /\ \E i \in DOMAIN diskRet.list :
          /\ diskRet.list[i].Checksum = Md5Hex["test backup data!"]
          /\ diskRet.list[i].DatabaseName \in DbNames
          /\ (diskRet.list[i].ID \o ".meta") \notin DOMAIN dir
          /\ \E n \in ListedNames(dir) :
                /\ (n \o ".meta") \in DOMAIN dir
                /\ diskRet.list[i] = ListRecord(dir, n)
                /\ diskRet.list[i].Timestamp < dir[n].modTime

\* the fields of the record that are the caller's
InputFields == {"ID", "DatabaseName", "DatabaseType", "Timestamp", "Tags"}

\* C30: the record an Upload of the disk or of the S3 Provider leaves has the
\* ID, DatabaseName, DatabaseType, Timestamp and Tags of the record it was
\* given, whether the Upload returned an error or not.
C30_UploadKeepsInputFields ==
    diskRet.op \in {"Upload", "S3Upload"} =>
        \A f \in InputFields : diskRet.metadata[f] = uploadArg[f]

\* C30 witness: after a disk Upload that succeeded, an S3 Upload has failed
\* in PutObject, with Checksum and Size already set in its record.
C30_Witness ==
    /\ diskRet.op = "S3Upload" /\ diskRet.err # NilError /\ uploads = 1
    /\ diskRet.metadata.Checksum # uploadArg.Checksum
    /\ diskRet.metadata.Size # uploadArg.Size

\* ------------------------------------------------------------------------
\* BackupService: properties
\* ------------------------------------------------------------------------

\* C5: a stream Backup returned is not closed while Execute still uses it,
\* and is closed exactly once when Execute is about to return and after it
\* returned, whether Upload gave an error or not; an error of Upload is the
\* error of Execute.
C5_StreamClosedOnce ==
    \A p \in Procs :
        /\ exPc[p] \in {"id", "stamp", "upload", "close"} =>
              exLocal[p].reader.open /\ exLocal[p].reader.closes = 0
        /\ exPc[p] = "return" => exLocal[p].reader.closes = 1
        /\ (exRet[p].done /\ exRet[p].reader.open) =>
              /\ exRet[p].reader.closes = 1
              /\ exRet[p].uploadErr # NilError =>
                    exRet[p].err # NilError /\ exRet[p].metadata = NilMetadata

\* C5 witness: an Execute whose Upload failed returned an error with its
\* stream closed once, and another whose Upload succeeded returned its
\* record with its stream closed once.
C5_Witness ==
    \E p, q \in Procs :
        /\ exRet[p].done /\ exRet[p].reader.open
        /\ exRet[p].uploadErr # NilError /\ exRet[p].err # NilError
        /\ exRet[p].reader.closes = 1
        /\ exRet[q].done /\ exRet[q].reader.open
        /\ exRet[q].err = NilError
        /\ exRet[q].reader.closes = 1

\* C6: two different Execute calls never give their records the same ID.
C6_DistinctIDs ==
    \A a, b \in assigned : a[1] # b[1] => a[2] # b[2]

\* the steps of Execute and of Restore, in the order of the code
ExecuteSteps == <<"GetMetadata", "Backup", "Upload">>
RestoreSteps == <<"Download", "Restore">>

\* goroutine p's last call was op and has returned
Returned(p, op) == exRet[p].done /\ exRet[p].op = op

\* goroutine p's last call has returned after its step failed
FailedAt(p, step) ==
    /\ exRet[p].done
    /\ exRet[p].errs # <<>>
    /\ exRet[p].errs[1][1] = step

\* C11: an Execute that has returned called GetMetadata, Backup and Upload in
\* this order and stopped at the first of them that returned an error: it made
\* no later backend call, and returned a nil record with that error, the only
\* error of the call; with no error it made all three calls and returned a
\* record and a nil error.
C11_FirstErrorAborts ==
    \A p \in Procs :
        Returned(p, "Execute") =>
            /\ \E n \in 1..3 : exRet[p].steps = SubSeq(ExecuteSteps, 1, n)
            /\ IF exRet[p].errs = <<>>
               THEN /\ exRet[p].steps = ExecuteSteps
                    /\ exRet[p].err = NilError
                    /\ exRet[p].metadata # NilMetadata
               ELSE /\ Len(exRet[p].errs) = 1
                    /\ exRet[p].errs[1][1] = exRet[p].steps[Len(exRet[p].steps)]
                    /\ exRet[p].errs[1][2] # NilError
                    /\ exRet[p].err = exRet[p].errs[1][2]
                    /\ exRet[p].metadata = NilMetadata

\* C11 witness: one Execute returned the error of Backup without calling
\* Upload, another returned the error of Upload.
C11_Witness ==
    \E p, q \in Procs :
        /\ Returned(p, "Execute") /\ FailedAt(p, "Backup")
        /\ exRet[p].steps = <<"GetMetadata", "Backup">>
        /\ exRet[p].err = BackupFailed
        /\ Returned(q, "Execute") /\ FailedAt(q, "Upload")
        /\ exRet[q].err = exRet[q].uploadErr

\* C12: a Restore that has returned called Download once; when Download
\* failed it returned that error and the database backend's Restore was not
\* called; when Download succeeded the database backend's Restore was called
\* exactly once, with the stream Download opened on the backup, and its error
\* or nil is what Restore returned.
C12_RestoreDownloadThenRestore ==
    \A p \in Procs :
        Returned(p, "Restore") =>
            IF FailedAt(p, "Download")
            THEN /\ exRet[p].steps = <<"Download">>
                 /\ exRet[p].restored = <<>>
                 /\ Len(exRet[p].errs) = 1
                 /\ exRet[p].err = exRet[p].errs[1][2]
                 /\ exRet[p].err # NilError
            ELSE /\ exRet[p].steps = RestoreSteps
                 /\ Len(exRet[p].restored) = 1
                 /\ exRet[p].reader.open
                 /\ exRet[p].reader.src = exRet[p].backupID
                 /\ exRet[p].restored[1][1] = exRet[p].reader.src
                 /\ IF exRet[p].errs = <<>>
                    THEN exRet[p].err = NilError
                    ELSE /\ exRet[p].errs = <<(<<"Restore", exRet[p].err>>)>>
                         /\ exRet[p].err # NilError

\* C12 witness: a Restore whose Download succeeded gave the bytes of the
\* backup to the database backend once and returned nil.
C12_Witness ==
    \E p \in Procs :
        /\ Returned(p, "Restore")
        /\ exRet[p].errs = <<>>
        /\ exRet[p].err = NilError
        /\ exRet[p].restored = <<(<<exRet[p].backupID, "test backup data!">>)>>

\* C13: the stream Download returned is open and not closed while Restore
\* uses it, and closed exactly once when Restore is about to return and after
\* it returned, whether the database backend's Restore failed or not; a
\* Restore whose Download failed has no stream and closed nothing.
C13_DownloadStreamClosedOnce ==
    \A p \in Procs :
        /\ exPc[p] \in {"restore", "r_close"} =>
              exLocal[p].reader.open /\ exLocal[p].reader.closes = 0
        /\ exPc[p] = "r_return" => exLocal[p].reader.closes = 1
        /\ Returned(p, "Restore") =>
              IF FailedAt(p, "Download")
              THEN ~exRet[p].reader.open /\ exRet[p].reader.closes = 0
              ELSE exRet[p].reader.open /\ exRet[p].reader.closes = 1

\* C13 witness: a Restore whose database backend failed has returned with its
\* stream closed once.
C13_Witness ==
    \E p \in Procs :
        /\ Returned(p, "Restore") /\ FailedAt(p, "Restore")
        /\ exRet[p].err # NilError
        /\ exRet[p].reader.open
        /\ exRet[p].reader.closes = 1

\* C14: the record a successful Execute returns is the record as Upload left
\* it: its DatabaseName and DatabaseType are the Name and Type GetMetadata
\* returned in this call, its Tags are an empty map that is not nil, and its
\* Size and Checksum are the length and the MD5 of the bytes Upload read.
C14_ReturnsUploadedRecord ==
    \A p \in Procs :
        (Returned(p, "Execute") /\ exRet[p].err = NilError) =>
            /\ exRet[p].metadata = exRet[p].uploaded
            /\ exRet[p].metadata.DatabaseName = exRet[p].dbMeta.Name
            /\ exRet[p].metadata.DatabaseType = exRet[p].dbMeta.Type
            /\ exRet[p].metadata.Tags = "empty"
            /\ exRet[p].metadata.Size = Len(exRet[p].reader.data)
            /\ exRet[p].metadata.Checksum = Md5Hex[exRet[p].reader.data]

\* C14 witness: an Execute of a non-empty backup has returned its record.
C14_Witness ==
    \E p \in Procs :
        /\ Returned(p, "Execute") /\ exRet[p].err = NilError
        /\ exRet[p].metadata.DatabaseName \in DbNames
        /\ exRet[p].metadata.Size > 0

\* C15: the step in which BackupService.List runs makes one call, the storage
\* backend's List, returns one of the lists that call can return with a nil
\* error and leaves the backups alone; the step in which BackupService.Delete
\* runs makes one call, the storage backend's Delete of the same ID, returns
\* its error and leaves the backups as that Delete leaves them.
C15_ListDeletePassThrough ==
    [][\A p \in Procs :
        (exOps' = exOps + 1 /\ exRet'[p].done /\ exRet'[p].call = exOps') =>
            /\ exRet'[p].op = "List" =>
                  /\ exRet'[p].steps = <<"List">>
                  /\ exRet'[p].list \in List(dir)
                  /\ exRet'[p].err = NilError
                  /\ dir' = dir
            /\ exRet'[p].op = "Delete" =>
                  /\ exRet'[p].steps = <<"Delete">>
                  /\ exRet'[p].err = Delete(dir, exRet'[p].backupID).err
                  /\ dir' = Delete(dir, exRet'[p].backupID).dir
      ]_vars

\* C15 witness: BackupService.List has returned the record of a backup, and
\* BackupService.Delete has removed a backup.
C15_Witness ==
    \/ \E p \in Procs :
        /\ Returned(p, "List")
        /\ Len(exRet[p].list) = 1
        /\ exRet[p].list[1].DatabaseName \in DbNames
    \/ \E p \in Procs :
        /\ Returned(p, "Delete")
        /\ exRet[p].err = NilError

\* C18: two calls that failed at different steps returned different errors.
C18_FailedStepDistinguishable ==
    \A p, q \in Procs :
        (/\ exRet[p].done /\ exRet[p].err # NilError
         /\ exRet[q].done /\ exRet[q].err # NilError
         /\ exRet[p].errs[1][1] # exRet[q].errs[1][1]) =>
            exRet[p].err # exRet[q].err

\* C22: the calls of one Execute happen in the order of the code, each after
\* the one before has returned: Backup is called with GetMetadata returned
\* and no stream yet, Upload is called with GetMetadata and Backup returned
\* and the stream open and not closed, the stream is closed with Upload
\* returned; and in one Restore the database backend's Restore is called with
\* Download returned and its stream open and not closed, and the stream is
\* closed with that Restore returned.
C22_StepsInOrder ==
    \A p \in Procs :
        /\ exPc[p] = "metadata" => exLocal[p].steps = <<>>
        /\ exPc[p] = "backup" =>
              exLocal[p].steps = <<"GetMetadata">> /\ ~exLocal[p].reader.open
        /\ exPc[p] \in {"id", "stamp", "upload"} =>
              /\ exLocal[p].steps = <<"GetMetadata", "Backup">>
              /\ exLocal[p].reader.open /\ exLocal[p].reader.closes = 0
        /\ exPc[p] = "close" =>
              exLocal[p].steps = ExecuteSteps /\ exLocal[p].reader.closes = 0
        /\ exPc[p] = "return" =>
              exLocal[p].steps = ExecuteSteps /\ exLocal[p].reader.closes = 1
        /\ exPc[p] = "download" => exLocal[p].steps = <<>>
        /\ exPc[p] = "restore" =>
              /\ exLocal[p].steps = <<"Download">>
              /\ exLocal[p].reader.open /\ exLocal[p].reader.closes = 0
        /\ exPc[p] = "r_close" =>
              exLocal[p].steps = RestoreSteps /\ exLocal[p].reader.closes = 0
        /\ exPc[p] = "r_return" =>
              exLocal[p].steps = RestoreSteps /\ exLocal[p].reader.closes = 1
        /\ exRet[p].done =>
              /\ exRet[p].reader.closes \in {0, 1}
              /\ exRet[p].reader.closes = 1 =>
                    exRet[p].steps \in {ExecuteSteps, RestoreSteps}

\* C22 witness: one Execute has made its three calls and closed its stream,
\* and a Restore is between the return of the database backend's Restore and
\* the closing of its stream.
C22_Witness ==
    \E p, q \in Procs :
        /\ Returned(p, "Execute")
        /\ exRet[p].steps = ExecuteSteps /\ exRet[p].reader.closes = 1
        /\ exPc[q] = "r_close"
        /\ exLocal[q].steps = RestoreSteps /\ exLocal[q].reader.closes = 0

\* ------------------------------------------------------------------------
\* DefaultRegistry: properties
\* ------------------------------------------------------------------------

\* the names of a kind registered through the package-level functions
PackageNames(kind) == {e[2] : e \in {x \in pkgRegistered : x[1] = kind}}

\* C20: after every step, each provider package that has been initialised
\* has its name in DefaultRegistry ("disk" and "s3" among the storages,
\* "postgres" among the databases) and so has every name registered through
\* the package-level functions; a package-level call leaves the registry of
\* its own alone; a package-level Get of a name registered through the
\* package-level functions does not return the not-registered error, and
\* returns a provider when it returns no error; a package-level List returns
\* the names of DefaultRegistry, each once, those registered through the
\* package-level functions among them.
C20_PackageFunctionsShareDefaultRegistry ==
    [][/\ \A pkg \in initialised' :
             IF pkg = "postgres"
             THEN "postgres" \in DOMAIN DefaultRegistry'.databases
             ELSE pkg \in DOMAIN DefaultRegistry'.storages
       /\ \A e \in pkgRegistered' : e[2] \in DOMAIN MapOf(DefaultRegistry', e[1])
       /\ defRet'.via \in {"init", "package"} =>
             /\ otherRegistry' = otherRegistry
             /\ defRet'.op = "Register" =>
                   MapOf(DefaultRegistry', defRet'.kind)[defRet'.name] = defRet'.factory
             /\ (defRet'.op = "Get" /\ defRet'.name \in PackageNames(defRet'.kind)) =>
                   /\ defRet'.err # NotRegisteredError(defRet'.kind, defRet'.name)
                   /\ defRet'.err = NilError => defRet'.provider # NilProvider
             /\ defRet'.op = "List" =>
                   /\ Len(defRet'.names) = Cardinality(DOMAIN MapOf(DefaultRegistry, defRet'.kind))
                   /\ {defRet'.names[i] : i \in DOMAIN defRet'.names}
                         = DOMAIN MapOf(DefaultRegistry, defRet'.kind)
                   /\ PackageNames(defRet'.kind)
                         \subseteq {defRet'.names[i] : i \in DOMAIN defRet'.names}
      ]_vars

\* C20 witness: with the three provider packages initialised and a name
\* registered through core.RegisterDatabase, core.GetDatabase of that name
\* has returned a provider.
C20_Witness ==
    /\ initialised = Packages
    /\ <<"database", "test-global">> \in pkgRegistered
    /\ defRet.via = "package" /\ defRet.op = "Get"
    /\ defRet.kind = "database" /\ defRet.name = "test-global"
    /\ defRet.err = NilError
    /\ defRet.provider # NilProvider

\* ------------------------------------------------------------------------
\* Config: properties
\* ------------------------------------------------------------------------

\* C21: what Validate returned for the Config is the first failing check in
\* the order host, username, bucket: "database host is required" when the
\* host is empty; else "database username is required" when the username is
\* empty; else "storage bucket is required for S3 storage" when the type is
\* "s3" and the bucket is empty; nil in every other case, for disk storage
\* with an empty path and for unknown storage types too.
C21_ValidateFirstFailingCheck ==
    validateRet.called =>
        /\ appConfig.Database.Host = "" =>
              validateRet.err = <<"database host is required">>
        /\ (appConfig.Database.Host # "" /\ appConfig.Database.Username = "") =>
              validateRet.err = <<"database username is required">>
        /\ (/\ appConfig.Database.Host # "" /\ appConfig.Database.Username # ""
            /\ appConfig.Storage.Type = "s3" /\ appConfig.Storage.Bucket = "") =>
              validateRet.err = <<"storage bucket is required for S3 storage">>
        /\ (/\ appConfig.Database.Host # "" /\ appConfig.Database.Username # ""
            /\ (appConfig.Storage.Type # "s3" \/ appConfig.Storage.Bucket # "")) =>
              validateRet.err = NilError

\* C21 witness: Validate has run on a Config with neither host nor username
\* and an S3 storage without bucket, and reported the host.
C21_Witness ==
    /\ validateRet.called
    /\ appConfig.Database.Host = "" /\ appConfig.Database.Username = ""
    /\ appConfig.Storage.Type = "s3" /\ appConfig.Storage.Bucket = ""
    /\ validateRet.err = <<"database host is required">>

\* the registry new is the registry old with the entry of name in the
\* mapping of kind set to factory, and nothing else changed
OnlyEntrySet(old, new, kind, name, factory) ==
    /\ \A k \in Kinds \ {kind} : MapOf(new, k) = MapOf(old, k)
    /\ DOMAIN MapOf(new, kind) = DOMAIN MapOf(old, kind) \cup {name}
    /\ MapOf(new, kind)[name] = factory
    /\ \A n \in DOMAIN MapOf(old, kind) \ {name} : MapOf(new, kind)[n] = MapOf(old, kind)[n]

\* C25: a step in which RegisterDatabase(name, f) runs on a registry sets
\* that registry's database entry of name to f and changes neither its
\* storages, nor its other database entries, nor the other registry, be it
\* DefaultRegistry or a registry of its own; the same with the kinds
\* exchanged for RegisterStorage; a step in which a Get or a List runs
\* changes no mapping of either registry.
C25_RegisterChangesOneEntry ==
    [][/\ defRet'.op \in {"Get", "List"} =>
             DefaultRegistry' = DefaultRegistry /\ otherRegistry' = otherRegistry
       /\ (defRet'.op = "Register" /\ defRet'.via = "instance") =>
             /\ DefaultRegistry' = DefaultRegistry
             /\ OnlyEntrySet(otherRegistry, otherRegistry',
                             defRet'.kind, defRet'.name, defRet'.factory)
       /\ (defRet'.op = "Register" /\ defRet'.via \in {"init", "package"}) =>
             /\ otherRegistry' = otherRegistry
             /\ OnlyEntrySet(DefaultRegistry, DefaultRegistry',
                             defRet'.kind, defRet'.name, defRet'.factory)
      ]_vars

\* C25 witness: RegisterDatabase has run on the registry of its own, which
\* holds that one entry, while DefaultRegistry holds the providers' entries
\* and a storage of the same name.
C25_Witness ==
    /\ defRet.via = "instance" /\ defRet.op = "Register" /\ defRet.kind = "database"
    /\ DOMAIN otherRegistry.databases = {defRet.name}
    /\ otherRegistry.storages = EmptyMap
    /\ defRet.name \in DOMAIN DefaultRegistry.storages
    /\ defRet.name \notin DOMAIN DefaultRegistry.databases
    /\ initialised = Packages

\* the backend calls in steps that are step
CallsOf(steps, step) == Cardinality({i \in DOMAIN steps : steps[i] = step})

\* at most one call of each of allowed, and no other call
AtMostOnceEach(steps, allowed) ==
    /\ \A i \in DOMAIN steps : \E j \in DOMAIN allowed : steps[i] = allowed[j]
    /\ \A j \in DOMAIN allowed : CallsOf(steps, allowed[j]) <= 1

\* C31: an Execute, while it runs and when it has returned, has called each
\* of GetMetadata, Backup and Upload at most once and no other backend
\* operation (no Delete, Download or List), also when its Upload failed; a
\* Restore has called each of Download and the database backend's Restore at
\* most once and nothing else.
C31_NoRetryNoCleanup ==
    \A p \in Procs :
        /\ exLocal[p].op = "Execute" => AtMostOnceEach(exLocal[p].steps, ExecuteSteps)
        /\ exLocal[p].op = "Restore" => AtMostOnceEach(exLocal[p].steps, RestoreSteps)
        /\ Returned(p, "Execute") => AtMostOnceEach(exRet[p].steps, ExecuteSteps)
        /\ Returned(p, "Restore") => AtMostOnceEach(exRet[p].steps, RestoreSteps)

\* C31 witness: an Execute has returned the error of an Upload that left a
\* truncated backup file, which is still in the directory.
C31_Witness ==
    \E p \in Procs :
        /\ Returned(p, "Execute") /\ FailedAt(p, "Upload")
        /\ exRet[p].steps = ExecuteSteps
        /\ exRet[p].uploaded.Size > 0
        /\ getBackupFilename(exRet[p].uploaded) \in DOMAIN dir
        /\ dir[getBackupFilename(exRet[p].uploaded)].data = ""

\* goroutine p is in an Execute that has its stream from Backup and has not
\* yet called Upload
HoldsStream(p) == exPc[p] \in {"id", "stamp", "upload"} /\ exLocal[p].reader.open

\* goroutine p's Execute has its record back from an Upload that succeeded
Uploaded(p) ==
    \/ Returned(p, "Execute") /\ exRet[p].err = NilError
    \/ exPc[p] \in {"close", "return"} /\ exLocal[p].err = NilError

\* the record of goroutine p's Execute after Upload
UploadedRecord(p) == IF exRet[p].done THEN exRet[p].uploaded ELSE exLocal[p].uploaded

\* a List returns a record for the backup file of each of the two Executes,
\* two records in all
BothListed ==
    \A backups \in List(dir) :
        \E i, j \in DOMAIN backups :
            /\ i # j
            /\ backups[i] = ListRecord(dir, getBackupFilename(UploadedRecord(1)))
            /\ backups[j] = ListRecord(dir, getBackupFilename(UploadedRecord(2)))

\* C32: from a state in which two Executes both hold their streams and
\* neither has finished Upload, whenever the Uploads of both have succeeded a
\* List returns a record for each of the two backups.
C32_OverlappingBackupsBothListed ==
    []((HoldsStream(1) /\ HoldsStream(2)) =>
          []((Uploaded(1) /\ Uploaded(2)) => BothListed))

\* C33: a Restore whose Download returned no error has, when it returns,
\* called the database backend's Restore once with the stream on that backup,
\* and it returns what that Restore returned, whatever bytes the backup file
\* holds.
C33_RestoreWithoutVerification ==
    \A p \in Procs :
        (/\ Returned(p, "Restore")
         /\ exRet[p].steps # <<>>
         /\ \A i \in DOMAIN exRet[p].errs : exRet[p].errs[i][1] # "Download") =>
            /\ exRet[p].steps = RestoreSteps
            /\ Len(exRet[p].restored) = 1
            /\ exRet[p].restored[1][1] = exRet[p].backupID
            /\ exRet[p].err = IF exRet[p].errs = <<>> THEN NilError ELSE exRet[p].errs[1][2]

\* C33 witness: an Execute failed in an Upload that left a truncated file,
\* and a Restore of that file has handed its bytes, which are not those of
\* the record's Checksum and Size, to the database backend and returned nil.
C33_Witness ==
    \E p, q \in Procs :
        /\ Returned(q, "Execute") /\ FailedAt(q, "Upload")
        /\ Returned(p, "Restore") /\ exRet[p].err = NilError
        /\ exRet[p].backupID = getBackupFilename(exRet[q].uploaded)
        /\ Len(exRet[p].restored) = 1
        /\ Md5Hex[exRet[p].restored[1][2]] # exRet[q].uploaded.Checksum
        /\ Len(exRet[p].restored[1][2]) # exRet[q].uploaded.Size

\* a step of a call that has started, of goroutine g
CanStep(g) ==
    \/ lockPc[g] = "rlock" /\ CanRLock(lockMu)
    \/ lockPc[g] = "lock" /\ CanLock(lockMu)
    \/ lockPc[g] = "wait" /\ CanAcquire(lockMu, g)
    \/ lockPc[g] \in {"read", "write", "construct"}

\* C34: a goroutine in a constructor holds no lock of the registry: the
\* readers of the lock are the goroutines between RLock and RUnlock and its
\* writer is the goroutine between Lock and Unlock; so a registration that
\* waits while only constructors run can take the lock, and whenever a call
\* is under way, a call made from a constructor included, some goroutine can
\* take its next step.
C34_ConstructorOutsideLock ==
    /\ lockMu.readers = Cardinality({g \in Goroutines : lockPc[g] = "read"})
    /\ lockMu.held <=> \E g \in Goroutines : lockPc[g] = "write"
    /\ \A h \in Goroutines :
          (/\ lockPc[h] = "wait"
           /\ \A g \in Goroutines \ {h} : lockPc[g] \in {"construct", "idle", "lock", "rlock"}) =>
              CanAcquire(lockMu, h)
    /\ (\E g \in Goroutines : lockPc[g] # "idle") => \E g \in Goroutines : CanStep(g)

\* C34 witness: a goroutine registers from inside its constructor and is in
\* the write section, while another goroutine is in its constructor too.
C34_Witness ==
    \E g, h \in Goroutines :
        /\ g # h
        /\ g \in inConstructor /\ lockPc[g] = "write"
        /\ lockPc[h] = "construct"

\* C35: no step takes a name out of a mapping; and a lookup of a name that is
\* in the mapping finds a constructor, a range over the mapping collects
\* every name that is in it.
C35_NamesAreNeverLost ==
    [][/\ DOMAIN databases \subseteq DOMAIN databases'
       /\ DOMAIN storages \subseteq DOMAIN storages'
       /\ \A p \in Procs :
             /\ (/\ regPc[p] = "get_lookup" /\ StepOf(p)
                 /\ regCall[p].name \in DOMAIN RegistryMap(regCall[p].kind)) =>
                    /\ regLocal'[p].exists
                    /\ regLocal'[p].factory \in Factories
             /\ (regPc[p] = "list_range" /\ StepOf(p)) =>
                    DOMAIN RegistryMap(regCall[p].kind)
                        \subseteq {regLocal'[p].names[i] : i \in DOMAIN regLocal'[p].names}
      ]_vars

\* C35 witness: after the registration of two names in one mapping, a
\* resolve of one of them has invoked a constructor.
C35_Witness ==
    \E p \in Procs, k \in Kinds :
        /\ regCall[p].op = "Got" /\ regCall[p].kind = k
        /\ \A n \in Names : regCount[k][n] = 1
        /\ DOMAIN RegistryMap(k) = Names
        /\ Len(invoked[p]) = 1
        /\ regPc = [q \in Procs |-> "idle"]

\* the step is a successful Upload that follows a successful Upload, which
\* wrote its sidecar, of a record with the same DatabaseName and DatabaseType
\* and a Timestamp in the same second
SecondUploadSameKey ==
    /\ UploadSucceeded
    /\ (getBackupFilename(diskRet.metadata) \o ".meta") \in DOMAIN dir
    /\ diskOps' = diskOps + 1
    /\ diskRet'.op = "Upload" /\ diskRet'.err = NilError
    /\ diskRet'.metadata.DatabaseName = diskRet.metadata.DatabaseName
    /\ diskRet'.metadata.DatabaseType = diskRet.metadata.DatabaseType
    /\ Seconds(diskRet'.metadata.Timestamp) = Seconds(diskRet.metadata.Timestamp)

\* what the second of two Uploads to one key leaves: the file holds its
\* bytes, the sidecar its record, a List has one record for the key and a
\* Download of the key yields its bytes
SecondReplacesFirst ==
    \E key \in {getBackupFilename(diskRet'.metadata)} :
        /\ key = getBackupFilename(diskRet.metadata)
        /\ key \in DOMAIN dir'
        /\ dir'[key].data = diskRet'.data
        /\ (key \o ".meta") \in DOMAIN dir'
        /\ dir'[key \o ".meta"].data = MetadataContent(diskRet'.metadata)
        /\ \A backups \in List(dir') :
              Cardinality({i \in DOMAIN backups : backups[i] = ListRecord(dir', key)}) = 1
        /\ Download(dir', key).err = NilError
        /\ Download(dir', key).data = diskRet'.data

\* C36: a successful Upload that follows a successful Upload of a record
\* with the same DatabaseName, DatabaseType and second is written to the
\* same file name and replaces the first's bytes and sidecar; a List then has
\* one record for that name and a Download of it yields the second payload.
C36_SameKeySecondReplacesFirst ==
    [][SecondUploadSameKey => SecondReplacesFirst]_vars

\* C37: an Upload to the directory whose io.ReadAll failed returns the error
\* "failed to read backup data: ..." wrapping that failure, leaves the record
\* as it was given, Checksum and Size included, and leaves the directory as
\* it was.
C37_ReadFailureChangesNothing ==
    [][(/\ diskOps' = diskOps + 1
        /\ diskRet'.op = "Upload"
        /\ uploadFault' = "read") =>
            /\ diskRet'.err = Wrapf("failed to read backup data", ReadFailed)
            /\ diskRet'.metadata = uploadArg'
            /\ dir' = dir
      ]_vars

\* C37 witness: the Upload of a record that already had a Checksum and a
\* Size, into a directory with a backup, has failed reading the stream.
C37_Witness ==
    /\ diskRet.op = "Upload" /\ uploadFault = "read" /\ diskRet.err # NilError
    /\ uploadArg.Checksum = Md5Hex["test backup data!"] /\ uploadArg.Size > 0
    /\ diskRet.metadata.Checksum = uploadArg.Checksum
    /\ diskRet.metadata.Size = uploadArg.Size
    /\ getBackupFilename(uploadArg) \in DOMAIN dir

====
